---------------------------- MODULE Spec2Model ----------------------------
(***************************************************************************)
(* Model of the output parsers of side-quest-runners: the bun test output  *)
(* parser (packages/bun-runner/mcp/parse-utils.ts, kept here as            *)
(* src/unnamed/part_001 lines 99-250), and further down the tsc output     *)
(* parser, the Biome report parser, the tools runBunTests and runBiomeFix  *)
(* that call them, and the earlier parseBunTestOutput.                     *)
(*                                                                         *)
(* TEXT.  A line of output is a sequence of lexical tokens; the text of    *)
(* the line is the concatenation of its tokens, and the text of an output  *)
(* is its lines joined by "\n".  A token is one of                         *)
(*   " "        one blank (the only whitespace inside a line),             *)
(*   "\n"       the line break (only inside accumulated messages/stacks),  *)
(*   a numeral  a maximal run of decimal digits ("0", "4", "38"),          *)
(*   a mark     "(fail)" "[" "]" "(" ")" ":" "|", and Glyph, the token     *)
(*              that stands for the one character U+2717 (ballot X),       *)
(*   a keyword  "FAIL" "error:" "at" "pass" "fail",                        *)
(*   a word     any other text without blanks, digits or marks             *)
(*              ("boom", "/p/a.ts", "unknown").                            *)
(* In a line two numerals are never adjacent and two words or keywords     *)
(* are never adjacent; no word ends in "at" or begins with "pass", "fail",  *)
(* "FAIL" or "error:"; a line that starts with "at " holds no "(fail)".     *)
(* Every string test and every regular expression of the source is then    *)
(* decided on token boundaries, and each string operation of the source is *)
(* an operator below that computes on tokens what the source computes on   *)
(* characters.                                                             *)
(***************************************************************************)
EXTENDS Naturals, Sequences, FiniteSets, TLC

VARIABLES
    output,             \* the argument of parseBunTestOutput: a sequence of lines
    pc,                 \* "start" | "lines" | "flushed" | "done": position in the call
    idx,                \* index in `lines` of the next line of the for-loop
    passed,             \* const passed
    failedFromSummary,  \* <<>> for null, <<n>> for the number n
    currentFailure,     \* <<>> for null, <<f>> for the open TestFailure f
    failures,           \* const failures: TestFailure[]
    result,             \* <<>> until the call returns, then <<TestSummary>>
    opened,             \* history: <<>>, or <<[by, at]>>: the rule and the line
                        \* index that opened currentFailure
    origins,            \* history: for each entry of failures, [by, at, via]:
                        \* what opened it, and the rule that pushed it
    discarded,          \* history: [by, at] of the open failures dropped
    tsc,                \* the call of parseTscOutput: its position pc, its
                        \* argument output, the position lastIndex of the
                        \* matchAll iterator, errors, and the result
    biome,              \* the call of parseBiomeOutput: its position pc, its
                        \* argument stdout, report, diagnostics, the index k
                        \* of `d` in the for-of loop, and the result
    log,                \* history: the calls that returned before this one
    run,                \* the call of runBunTests and of the bun_runTests
                        \* handler around it: its position pc, what the process
                        \* runner returned, the summary, and the outcome
    fix                 \* the call of runBiomeFix: its position pc, the tool
                        \* runs made so far, what they printed, formatFixed,
                        \* lintFixed and remaining, and the number of other
                        \* callbacks the event loop ran while it was suspended

vars == <<output, pc, idx, passed, failedFromSummary, currentFailure,
          failures, result, opened, origins, discarded, tsc, biome, log, run, fix>>

---------------------------------------------------------------------------
(* Bounds of the model *)

\* longest input made of freely chosen lines
MaxLines == 3

\* largest number of consecutive newer-format blocks in a structured input
MaxBlocks == 2

---------------------------------------------------------------------------
(* Tokens and string operations *)

Numerals == {"0", "1", "2", "3", "4", "7", "38"}

\* Number.parseInt(t, 10) of a numeral
ParseInt(t) ==
    CASE t = "0" -> 0 [] t = "1" -> 1 [] t = "2" -> 2 [] t = "3" -> 3
      [] t = "4" -> 4 [] t = "7" -> 7 [] t = "38" -> 38

IsWs(t) == t = " "

IsDigits(t) == t \in Numerals

Min(S) == CHOOSE x \in S : \A y \in S : x <= y

Max(S) == CHOOSE x \in S : \A y \in S : y <= x

\* String.prototype.trim
RECURSIVE TrimStart(_)
TrimStart(s) ==
    IF s # <<>> /\ IsWs(Head(s)) THEN TrimStart(Tail(s)) ELSE s

RECURSIVE TrimEnd(_)
TrimEnd(s) ==
    IF s # <<>> /\ IsWs(s[Len(s)]) THEN TrimEnd(SubSeq(s, 1, Len(s) - 1)) ELSE s

Trim(s) == TrimEnd(TrimStart(s))

\* the one-character string U+2717 of the source
Glyph == "{U+2717}"

\* s.includes(Glyph)
IncludesGlyph(s) == \E k \in 1..Len(s) : s[k] = Glyph

\* s.startsWith('FAIL ')
StartsWithFAIL(s) == Len(s) >= 2 /\ s[1] = "FAIL" /\ s[2] = " "

\* s.startsWith('error:')
StartsWithError(s) == Len(s) >= 1 /\ s[1] = "error:"

\* s.startsWith('at ')
StartsWithAt(s) == Len(s) >= 2 /\ s[1] = "at" /\ s[2] = " "

---------------------------------------------------------------------------
(* Regular expressions of the source *)

\* a match of /(\d+) <word>/ starts at token k of line l
CountAt(out, word, l, k) ==
    /\ k + 2 <= Len(out[l])
    /\ IsDigits(out[l][k])
    /\ out[l][k + 1] = " "
    /\ out[l][k + 2] = word

\* output.match(/(\d+) <word>/)?.[1]: the numeral of the leftmost match in
\* the whole text, <<>> when there is none
CountMatch(out, word) ==
    LET ls == {l \in 1..Len(out) : \E k \in 1..Len(out[l]) : CountAt(out, word, l, k)}
    IN  IF ls = {} THEN <<>>
        ELSE LET l == Min(ls)
                 k == Min({j \in 1..Len(out[l]) : CountAt(out, word, l, j)})
             IN  <<out[l][k]>>

\* /\(fail\)\s+(.+?)\s+\[/ matches with "(fail)" at token p, a blanks after
\* it, and the name ending at token e
FailMatchAt(line, p, a, e) ==
    /\ line[p] = "(fail)"
    /\ a >= 1
    /\ p + a <= Len(line)
    /\ \A k \in (p + 1)..(p + a) : IsWs(line[k])
    /\ e >= p + a + 1
    /\ \E r \in (e + 2)..Len(line) :
          /\ line[r] = "["
          /\ \A k \in (e + 1)..(r - 1) : IsWs(line[k])

\* line.match(/\(fail\)\s+(.+?)\s+\[/)?.[1] as <<name>>, <<>> when null:
\* leftmost start, \s+ greedy, (.+?) lazy
failMatch(line) ==
    LET n  == Len(line)
        ps == {p \in 1..n : /\ line[p] = "(fail)"
                             /\ \E a \in 1..n, e \in 1..n : FailMatchAt(line, p, a, e)}
    IN  IF ps = {} THEN <<>>
        ELSE LET p == Min(ps)
                 a == Max({b \in 1..n : \E e \in 1..n : FailMatchAt(line, p, b, e)})
                 e == Min({f \in 1..n : FailMatchAt(line, p, a, f)})
             IN  <<SubSeq(line, p + a + 1, e)>>

\* the token ends with the character ":": the mark itself, or the keyword
\* "error:"
EndsWithColon(t) == t \in {":", "error:"}

\* the text of such a token before its last character
BeforeColon(t) == IF t = "error:" THEN <<"error">> ELSE <<>>

\* ":<digits>:<digits>" starts at the last character of token q
LocAt(line, q) ==
    /\ q + 3 <= Len(line)
    /\ EndsWithColon(line[q])
    /\ IsDigits(line[q + 1])
    /\ line[q + 2] = ":"
    /\ IsDigits(line[q + 3])

\* /\((.+):(\d+):(\d+)\)/ matches with "(" at token p and the first ":" at
\* the end of token q; the group (.+) is not empty
FrameParenAt(line, p, q) ==
    /\ line[p] = "("
    /\ q >= p + 1
    /\ SubSeq(line, p + 1, q - 1) \o BeforeColon(line[q]) # <<>>
    /\ LocAt(line, q)
    /\ q + 4 <= Len(line)
    /\ line[q + 4] = ")"

\* /at (.+):(\d+):(\d+)/ matches with "at " at token p and the first ":" at
\* the end of token q; the group (.+) is not empty
FrameBareAt(line, p, q) ==
    /\ p + 1 <= Len(line)
    /\ line[p] = "at"
    /\ line[p + 1] = " "
    /\ q >= p + 2
    /\ SubSeq(line, p + 2, q - 1) \o BeforeColon(line[q]) # <<>>
    /\ LocAt(line, q)

\* the groups [1] and [2] of line.match(/\((.+):(\d+):(\d+)\)/) as
\* <<[file, line]>>, <<>> when null: leftmost start, (.+) greedy
FrameParenMatch(line) ==
    LET n  == Len(line)
        ps == {p \in 1..n : \E q \in 1..n : FrameParenAt(line, p, q)}
    IN  IF ps = {} THEN <<>>
        ELSE LET p == Min(ps)
                 q == Max({r \in 1..n : FrameParenAt(line, p, r)})
             IN  <<[file |-> SubSeq(line, p + 1, q - 1) \o BeforeColon(line[q]),
                    line |-> line[q + 1]]>>

\* the same of line.match(/at (.+):(\d+):(\d+)/)
FrameBareMatch(line) ==
    LET n  == Len(line)
        ps == {p \in 1..n : \E q \in 1..n : FrameBareAt(line, p, q)}
    IN  IF ps = {} THEN <<>>
        ELSE LET p == Min(ps)
                 q == Max({r \in 1..n : FrameBareAt(line, p, r)})
             IN  <<[file |-> SubSeq(line, p + 2, q - 1) \o BeforeColon(line[q]),
                    line |-> line[q + 1]]>>

\* line.match(/\((.+):(\d+):(\d+)\)/) || line.match(/at (.+):(\d+):(\d+)/)
frameMatch(line) ==
    IF FrameParenMatch(line) # <<>> THEN FrameParenMatch(line) ELSE FrameBareMatch(line)

\* line.match(/^\d+ \| /)
IsSourceContext(line) ==
    /\ Len(line) >= 4
    /\ IsDigits(line[1])
    /\ line[2] = " "
    /\ line[3] = "|"
    /\ line[4] = " "

\* line.includes(Glyph) || line.startsWith('FAIL ')
IsStartMarker(line) == IncludesGlyph(line) \/ StartsWithFAIL(line)

---------------------------------------------------------------------------
(* parseFailureDetails: the rules of the loop body.  A parse state is      *)
(* [currentFailure, failures]; a TestFailure is [file, message, line,      *)
(* stack] with line <<>> when absent and stack <<>> when undefined.        *)

NewFailure(line) ==
    [file |-> <<"unknown">>, message |-> Trim(line), line |-> <<>>, stack |-> <<>>]

\* currentFailure.message += `\n${line.trim()}`
AppendMessage(f, line) ==
    [f EXCEPT !.message = @ \o <<"\n">> \o Trim(line)]

\* mutant of onFailMarker: the test name is not spliced into the message
onFailMarker_noName(st, line) ==
    IF st.currentFailure # <<>>
    THEN [currentFailure |-> <<>>,
          failures |-> Append(st.failures, st.currentFailure[1])]
    ELSE st

\* mutant of onFailMarker: a marker seen while no failure is open opens one
onFailMarker_opens(st, line) ==
    IF st.currentFailure # <<>>
    THEN LET f == st.currentFailure[1]
             g == [f EXCEPT !.message = failMatch(line)[1] \o <<":", " ">> \o @]
         IN  [currentFailure |-> <<>>, failures |-> Append(st.failures, g)]
    ELSE [st EXCEPT !.currentFailure = <<NewFailure(line)>>]

\* mutant of onFailMarker: the pushed failure stays the open one
onFailMarker_keepOpen(st, line) ==
    IF st.currentFailure # <<>>
    THEN LET f == st.currentFailure[1]
             g == [f EXCEPT !.message = failMatch(line)[1] \o <<":", " ">> \o @]
         IN  [currentFailure |-> <<g>>, failures |-> Append(st.failures, g)]
    ELSE st

\* the branch `if (failMatch)`
onFailMarker(st, line) ==
    IF st.currentFailure # <<>>
    THEN LET f == st.currentFailure[1]
             currentTestName == failMatch(line)[1]
             g == [f EXCEPT !.message = currentTestName \o <<":", " ">> \o @]
         IN  [currentFailure |-> <<>>, failures |-> Append(st.failures, g)]
    ELSE st

\* mutant of onStartMarker: the open failure is replaced without being pushed
onStartMarker_dropsOpen(st, line) ==
    [currentFailure |-> <<NewFailure(line)>>, failures |-> st.failures]

\* the branch `if (line.includes(Glyph) || line.startsWith('FAIL '))`
onStartMarker(st, line) ==
    [currentFailure |-> <<NewFailure(line)>>,
     failures |-> IF st.currentFailure # <<>>
                  THEN Append(st.failures, st.currentFailure[1])
                  ELSE st.failures]

\* the branch `if (line.trim().startsWith('error:'))`
onErrorLine(st, line) ==
    IF st.currentFailure # <<>>
    THEN [st EXCEPT !.currentFailure = <<AppendMessage(@[1], line)>>]
    ELSE [st EXCEPT !.currentFailure = <<NewFailure(line)>>]

\* mutant of onStackFrame: only a frame that resolved a location is kept
onStackFrame_resolvedOnly(f, line) ==
    IF frameMatch(line) # <<>>
    THEN [f EXCEPT !.file = frameMatch(line)[1].file,
                   !.line = <<ParseInt(frameMatch(line)[1].line)>>,
                   !.stack = @ \o line \o <<"\n">>]
    ELSE f

\* the stack-trace branch of `if (currentFailure)`
onStackFrame(f, line) ==
    LET match == frameMatch(line)
        g == IF match # <<>>
             THEN [f EXCEPT !.file = match[1].file,
                            !.line = <<ParseInt(match[1].line)>>]
             ELSE f
    IN  [g EXCEPT !.stack = @ \o line \o <<"\n">>]

\* mutant of onContent: source-context lines are appended like other text
onContent_appendsContext(st, line) ==
    IF st.currentFailure # <<>>
    THEN IF StartsWithAt(Trim(line))
         THEN [st EXCEPT !.currentFailure = <<onStackFrame(@[1], line)>>]
         ELSE IF Trim(line) # <<>>
              THEN [st EXCEPT !.currentFailure = <<AppendMessage(@[1], line)>>]
              ELSE st
    ELSE st

\* the block `if (currentFailure) { ... }` that ends the loop body
onContent(st, line) ==
    IF st.currentFailure # <<>>
    THEN IF StartsWithAt(Trim(line))
         THEN [st EXCEPT !.currentFailure = <<onStackFrame(@[1], line)>>]
         ELSE IF Trim(line) # <<>> /\ ~IsSourceContext(line)
              THEN [st EXCEPT !.currentFailure = <<AppendMessage(@[1], line)>>]
              ELSE st
    ELSE st

\* mutant of Rule: the start-marker test comes before the terminal-marker test
Rule_startFirst(line) ==
    IF line = <<>> THEN "empty"
    ELSE IF IsStartMarker(line) THEN "start"
    ELSE IF failMatch(line) # <<>> THEN "terminal"
    ELSE IF StartsWithError(Trim(line)) THEN "error"
    ELSE "content"

\* which branch of the loop body handles a line
Rule(line) ==
    IF line = <<>> THEN "empty"
    ELSE IF failMatch(line) # <<>> THEN "terminal"
    ELSE IF IsStartMarker(line) THEN "start"
    ELSE IF StartsWithError(Trim(line)) THEN "error"
    ELSE "content"

\* one iteration of `for (const line of lines)`
LoopBody(st, line) ==
    CASE Rule(line) = "empty"    -> st
      [] Rule(line) = "terminal" -> onFailMarker(st, line)
      [] Rule(line) = "start"    -> onStartMarker(st, line)
      [] Rule(line) = "error"    -> onErrorLine(st, line)
      [] Rule(line) = "content"  -> onContent(st, line)

\* mutant of KeptAtEnd: a block opened by an 'error:' line is kept as well
KeptAtEnd_errorToo(f) ==
    IncludesGlyph(f.message) \/ StartsWithFAIL(f.message) \/ StartsWithError(f.message)

\* the test after the loop: is the open failure kept
KeptAtEnd(f) == IncludesGlyph(f.message) \/ StartsWithFAIL(f.message)

\* mutant of endOfInput: every open failure is pushed at the end of input
endOfInput_pushAlways(st) ==
    IF st.currentFailure # <<>>
    THEN Append(st.failures, st.currentFailure[1])
    ELSE st.failures

\* the statements after the loop: the returned failures
endOfInput(st) ==
    IF st.currentFailure # <<>> /\ KeptAtEnd(st.currentFailure[1])
    THEN Append(st.failures, st.currentFailure[1])
    ELSE st.failures

RECURSIVE RunLines(_, _, _)
RunLines(st, lines, k) ==
    IF k > Len(lines) THEN st ELSE RunLines(LoopBody(st, lines[k]), lines, k + 1)

parseFailureDetails(out) ==
    endOfInput(RunLines([currentFailure |-> <<>>, failures |-> <<>>], out, 1))

---------------------------------------------------------------------------
(* parseBunTestOutput *)

\* const passed
PassedOf(out) ==
    IF CountMatch(out, "pass") # <<>> THEN ParseInt(CountMatch(out, "pass")[1]) ELSE 0

\* const failedFromSummary, <<>> for null
FailedFromSummaryOf(out) ==
    IF CountMatch(out, "fail") # <<>> THEN <<ParseInt(CountMatch(out, "fail")[1])>> ELSE <<>>

\* mutant of ShortCircuitSummary: the details are parsed all the same
ShortCircuitSummary_parseAnyway(p) ==
    [passed |-> p, failed |-> 0, total |-> p, failures |-> parseFailureDetails(output)]

\* the early return of `if (failedFromSummary === 0)`
ShortCircuitSummary(p) ==
    [passed |-> p, failed |-> 0, total |-> p, failures |-> <<>>]

\* mutant of FinalSummary: failed is always the number of parsed failures
FinalSummary_countParsed(p, ffs, fs) ==
    [passed |-> p, failed |-> Len(fs), total |-> p + Len(fs), failures |-> fs]

\* mutant of FinalSummary: without a summary count one failure is assumed
FinalSummary_failByDefault(p, ffs, fs) ==
    LET failed == IF ffs # <<>> THEN ffs[1] ELSE Len(fs) + 1
    IN  [passed |-> p, failed |-> failed, total |-> p + failed, failures |-> fs]

\* the final return statement
FinalSummary(p, ffs, fs) ==
    LET failed == IF ffs # <<>> THEN ffs[1] ELSE Len(fs)
    IN  [passed |-> p, failed |-> failed, total |-> p + failed, failures |-> fs]

parseBunTestOutput(out) ==
    IF FailedFromSummaryOf(out) = <<0>>
    THEN ShortCircuitSummary(PassedOf(out))
    ELSE FinalSummary(PassedOf(out), FailedFromSummaryOf(out), parseFailureDetails(out))

---------------------------------------------------------------------------
(* Inputs *)

L_empty  == <<>>
L_blank  == <<" ">>
L_err    == <<"error:", " ", "boom">>
L_err2   == <<" ", "error:", " ", "oops">>
L_term   == <<"(fail)", " ", "alpha", " ", "[", "ms", "]">>
L_term2  == <<"(fail)", " ", "omega", " ", "[", "ms", "]">>
L_glyph  == <<Glyph, " ", "beta">>
L_FAIL   == <<"FAIL", " ", "gamma">>
L_FAIL0  == <<"FAIL", " ">>
L_both   == <<Glyph, " ", "(fail)", " ", "delta", " ", "[">>
L_frameA == <<" ", "at", " ", "fn", " ", "(", "/p/a.ts", ":", "4", ":", "38", ")">>
L_frameB == <<"at", " ", "/p/b.ts", ":", "7", ":", "1">>
L_frame0 == <<" ", "at", " ", "native">>
L_ctx    == <<"3", " ", "|", " ", "code">>
L_text   == <<"Expected">>
L_text2  == <<" ", "Received">>
L_pass   == <<" ", "2", " ", "pass">>
L_fail0  == <<" ", "0", " ", "fail">>
L_fail2  == <<" ", "2", " ", "fail">>
L_ctxG   == <<"3", " ", "|", " ", Glyph, " ", "code">>
L_ctxT   == <<"3", " ", "|", " ", "(fail)", " ", "zeta", " ", "[">>
L_frameG == <<" ", "at", " ", Glyph, " ", "(", "/p/a.ts", ":", "4", ":", "38", ")">>
L_frameE == <<"at", " ", "error:", "4", ":", "38">>
L_frameP == <<"at", " ", "fn", " ", "(", "error:", "4", ":", "38", ")">>

\* the lines a freely chosen input is made of
Corpus ==
    {L_empty, L_blank, L_err, L_err2, L_term, L_glyph, L_FAIL, L_FAIL0, L_both,
     L_frameA, L_frameB, L_frame0, L_ctx, L_text, L_pass, L_fail0, L_fail2}

\* ''.split('\n') is [''], so an input has at least one line
FreeInputs == UNION {[1..n -> Corpus] : n \in 1..MaxLines}

\* a well-formed newer-format block: an 'error:' line, a detail line, a
\* resolving stack frame, a terminal marker
Blocks ==
    {<<e, d, f, t>> : e \in {L_err, L_err2}, d \in {L_text, L_text2},
                      f \in {L_frameA, L_frameB}, t \in {L_term, L_term2}}

RECURSIVE BlockSeqs(_)
BlockSeqs(n) ==
    IF n = 0 THEN {<<>>} ELSE {b \o r : b \in Blocks, r \in BlockSeqs(n - 1)}

\* inputs made of consecutive well-formed blocks, with or without a trailer
BlockInputs ==
    {bs \o tr : bs \in UNION {BlockSeqs(n) : n \in 1..MaxBlocks},
                tr \in {<<>>, <<L_fail2>>}}

\* lines that more than one rule of the loop could claim, stack-frame lines
\* whose location follows the keyword "error:", and lines to put around them
OverlapCorpus ==
    {L_err, L_glyph, L_term, L_frameA, L_frame0, L_text, L_ctx, L_ctxG, L_ctxT, L_frameG,
     L_frameE, L_frameP}

OverlapInputs == UNION {[1..n -> OverlapCorpus] : n \in 1..MaxLines}

Inputs == FreeInputs \cup BlockInputs \cup OverlapInputs

---------------------------------------------------------------------------
(* The tsc output parser (packages/tsc-runner/mcp/index.ts, kept here as   *)
(* src/unnamed/part_000 lines 104-124).                                    *)
(*                                                                         *)
(* The text is again lines of tokens.  The tokens of compiler output are   *)
(* " ", "\n", numerals, the marks "(" ")" "," ":", the keywords "error"    *)
(* and "TS" ("TS" is always followed by a numeral), and words.  The        *)
(* regular expression is matched on the whole text, the lines joined by    *)
(* "\n", because \s in it also matches the line break.                     *)

\* longest compiler output, in lines
MaxTscLines == 3

RECURSIVE JoinLines(_)
\* the text of an output: lines.join('\n')
JoinLines(lines) ==
    IF Len(lines) = 0 THEN <<>>
    ELSE IF Len(lines) = 1 THEN lines[1]
    ELSE lines[1] \o <<"\n">> \o JoinLines(Tail(lines))

\* \s of a regular expression
IsSpace(t) == t \in {" ", "\n"}

\* where a greedy \s* that starts at p stops when a non-space must follow
SkipSpace(text, p) ==
    Min({q \in p..(Len(text) + 1) : q = Len(text) + 1 \/ ~IsSpace(text[q])})

\* the last position of the line that holds position p
LineEnd(text, p) ==
    Max({q \in p..Len(text) : \A k \in p..q : text[k] # "\n"})

\* `\s*(.+)$` from position q: the greedy \s* gives back blanks until one
\* character of the same line is left for the group; <<>> when nothing is
MessageAt(text, q) ==
    LET starts == {x \in q..SkipSpace(text, q) : x <= Len(text) /\ text[x] # "\n"}
    IN  IF starts = {} THEN <<>>
        ELSE <<[from |-> Max(starts), to |-> LineEnd(text, Max(starts))]>>

\* `\((\d+),(\d+)\):\s*error\s+TS\d+:\s*(.+)$` after a file group that ends
\* at position e
TscRestAt(text, e) ==
    LET a == SkipSpace(text, e + 7)
        b == SkipSpace(text, a + 1)
    IN  IF /\ e + 6 <= Len(text)
           /\ text[e + 1] = "("
           /\ IsDigits(text[e + 2])
           /\ text[e + 3] = ","
           /\ IsDigits(text[e + 4])
           /\ text[e + 5] = ")"
           /\ text[e + 6] = ":"
           /\ a <= Len(text) /\ text[a] = "error"
           /\ b > a + 1
           /\ b + 2 <= Len(text)
           /\ text[b] = "TS" /\ IsDigits(text[b + 1]) /\ text[b + 2] = ":"
           /\ MessageAt(text, b + 3) # <<>>
        THEN <<[line |-> text[e + 2], col |-> text[e + 4],
                message |-> MessageAt(text, b + 3)[1]]>>
        ELSE <<>>

\* errorPattern tried at the line start s: the lazy `(.+?)` takes the
\* shortest file group after which the rest matches
errorPatternAt(text, s) ==
    LET ends == {e \in s..Len(text) :
                    /\ \A k \in s..e : text[k] # "\n"
                    /\ TscRestAt(text, e) # <<>>}
        e == Min(ends)
        m == TscRestAt(text, e)[1]
    IN  IF ends = {} THEN <<>>
        ELSE <<[file |-> SubSeq(text, s, e), line |-> m.line, col |-> m.col,
                message |-> SubSeq(text, m.message.from, m.message.to),
                last |-> m.message.to]>>

\* the next match of the /gm expression at or after position `from`: `^`
\* holds at the start of the text and after every line break
matchFrom(text, from) ==
    LET starts == {s \in from..Len(text) :
                      /\ s = 1 \/ text[s - 1] = "\n"
                      /\ errorPatternAt(text, s) # <<>>}
    IN  IF starts = {} THEN <<>> ELSE errorPatternAt(text, Min(starts))

\* lines 112-119: the TscError pushed for a match
TscErrorOf(m) ==
    [file |-> m.file, line |-> ParseInt(m.line), col |-> ParseInt(m.col),
     message |-> m.message]

\* line 123
TscResult(errors) == [errorCount |-> Len(errors), errors |-> errors]

RECURSIVE TscErrorsFrom(_, _)
\* lines 109-121: the errors of the matches at or after position `from`
TscErrorsFrom(text, from) ==
    IF matchFrom(text, from) = <<>> THEN <<>>
    ELSE <<TscErrorOf(matchFrom(text, from)[1])>>
         \o TscErrorsFrom(text, matchFrom(text, from)[1].last + 1)

parseTscOutput(out) == TscResult(TscErrorsFrom(JoinLines(out), 1))

\* lines of compiler output (src/unnamed/part_001 lines 6-7, 27)
T_empty == <<>>
T_errA  == <<"src/a.ts", "(", "4", ",", "38", ")", ":", " ", "error", " ",
             "TS", "7", ":", " ", "boom">>
T_errB  == <<"src/b.ts", "(", "7", ",", "1", ")", ":", " ", "error", " ",
             "TS", "2", ":", " ", "Type", " ", "mismatch">>
T_warn  == <<"Some", " ", "warning", " ", "text">>
T_head  == <<"src/c.ts", "(", "1", ",", "2", ")", ":">>
T_tail  == <<"error", " ", "TS", "3", ":", " ", "late">>
T_nomsg == <<"src/d.ts", "(", "3", ",", "4", ")", ":", " ", "error", " ",
             "TS", "1", ":">>

TscCorpus == {T_empty, T_errA, T_errB, T_warn, T_head, T_tail, T_nomsg}

\* ''.split('\n') is [''], so an output has at least one line
TscInputs == UNION {[1..n -> TscCorpus] : n \in 1..MaxTscLines}

---------------------------------------------------------------------------
(* The Biome report parser (packages/biome-runner/mcp/index.ts, kept here  *)
(* as src/packages/biome-runner/README.md lines 93-139).                   *)
(*                                                                         *)
(* Here the text is a string, character for character.  A JavaScript value *)
(* is a record with its type in field t and, but for null and undefined,   *)
(* its content in field v: a number, a string, a sequence of values for an *)
(* array, a record of values for an object.                                *)

\* most diagnostics in a report
MaxDiags == 2

JUndefined == [t |-> "undefined"]
JNull      == [t |-> "null"]
JNum(n)    == [t |-> "number", v |-> n]
JStr(s)    == [t |-> "string", v |-> s]
JArr(s)    == [t |-> "array", v |-> s]
JObj(r)    == [t |-> "object", v |-> r]

\* the order in which the members of an object are written
KeyOrder ==
    <<"diagnostics", "summary", "severity", "category", "description", "message",
      "location", "path", "file", "span", "start", "line", "advice", "errors",
      "warnings", "changed">>

RECURSIVE Stringify(_), StringifyItems(_), StringifyMembers(_, _)
\* JSON.stringify(v), without white space
Stringify(v) ==
    CASE v.t = "null"   -> "null"
      [] v.t = "number" -> ToString(v.v)
      [] v.t = "string" -> "\"" \o v.v \o "\""
      [] v.t = "array"  -> "[" \o StringifyItems(v.v) \o "]"
      [] v.t = "object" -> "{" \o StringifyMembers(v.v, 1) \o "}"

StringifyItems(s) ==
    IF Len(s) = 0 THEN ""
    ELSE IF Len(s) = 1 THEN Stringify(s[1])
    ELSE Stringify(s[1]) \o "," \o StringifyItems(Tail(s))

\* the members of the object r whose keys are KeyOrder[k], KeyOrder[k+1], ...
StringifyMembers(r, k) ==
    IF k > Len(KeyOrder) THEN ""
    ELSE IF KeyOrder[k] \notin DOMAIN r THEN StringifyMembers(r, k + 1)
    ELSE "\"" \o KeyOrder[k] \o "\":" \o Stringify(r[KeyOrder[k]])
         \o (IF \E j \in (k + 1)..Len(KeyOrder) : KeyOrder[j] \in DOMAIN r
             THEN "," ELSE "")
         \o StringifyMembers(r, k + 1)

\* truthiness of a value
Truthy(v) ==
    CASE v.t \in {"undefined", "null"} -> FALSE
      [] v.t = "number" -> v.v # 0
      [] v.t = "string" -> v.v # ""
      [] OTHER -> TRUE

IsNullish(v) == v.t \in {"undefined", "null"}

\* v.k for a value v that is neither null nor undefined (none of the keys
\* read by the parser is a property of a number, a string or an array)
Get(v, k) == IF v.t = "object" /\ k \in DOMAIN v.v THEN v.v[k] ELSE JUndefined

\* v?.k
OptGet(v, k) == IF IsNullish(v) THEN JUndefined ELSE Get(v, k)

\* a || b
Or(a, b) == IF Truthy(a) THEN a ELSE b

\* a ?? b
Coalesce(a, b) == IF IsNullish(a) THEN b ELSE a

\* for (const d of v) runs only over an array or a string
IsIterable(v) == v.t \in {"array", "string"}

\* the values the for-of loop yields
Elements(v) ==
    IF v.t = "array" THEN v.v
    ELSE [i \in 1..Len(v.v) |-> JStr(SubSeq(v.v, i, i))]

\* s.substring(0, n)
Substring0(s, n) == SubSeq(s, 1, Min({n, Len(s)}))

\* line 100
IsReported(d) == Get(d, "severity") \in {JStr("error"), JStr("warning")}

\* lines 101-108: the LintDiagnostic pushed for the reported diagnostic d
LintDiagnosticOf(d) ==
    [file |-> Or(OptGet(OptGet(Get(d, "location"), "path"), "file"), JStr("unknown")),
     line |-> Or(OptGet(OptGet(OptGet(Get(d, "location"), "span"), "start"), "line"),
                 JNum(0)),
     message |-> Or(Get(d, "description"), Get(d, "message")),
     code |-> Or(Get(d, "category"), JStr("unknown")),
     severity |-> Get(d, "severity"),
     suggestion |-> IF Truthy(Get(d, "advice"))
                    THEN JStr(Stringify(Get(d, "advice")))
                    ELSE JUndefined]

\* diagnostics.filter((d) => d.severity === sev).length
CountSeverity(diagnostics, sev) ==
    Cardinality({i \in DOMAIN diagnostics : diagnostics[i].severity = JStr(sev)})

\* lines 100-109: one turn of the loop; d is neither null nor undefined
pushDiagnostic_all(diagnostics, d) == Append(diagnostics, LintDiagnosticOf(d))

pushDiagnostic(diagnostics, d) ==
    IF IsReported(d) THEN Append(diagnostics, LintDiagnosticOf(d)) ELSE diagnostics

\* lines 113-123, with the counts always read from the summary
LintSummaryOf_summaryOnly(report, diagnostics) ==
    [error_count |-> Get(Or(Get(report, "summary"), JObj(<<>>)), "errors"),
     warning_count |-> Get(Or(Get(report, "summary"), JObj(<<>>)), "warnings"),
     diagnostics |-> diagnostics]

\* lines 113-123
LintSummaryOf(report, diagnostics) ==
    LET summary == Or(Get(report, "summary"), JObj(<<>>))
    IN  [error_count |-> Coalesce(Get(summary, "errors"),
                                  JNum(CountSeverity(diagnostics, "error"))),
         warning_count |-> Coalesce(Get(summary, "warnings"),
                                    JNum(CountSeverity(diagnostics, "warning"))),
         diagnostics |-> diagnostics]

\* lines 125-137, with the whole input in the message
FailSafe_wholeInput(stdout) ==
    [error_count |-> JNum(1),
     warning_count |-> JNum(0),
     diagnostics |->
        <<[file |-> JStr("unknown"), line |-> JNum(0),
           message |-> JStr("Failed to parse Biome JSON output: " \o stdout),
           code |-> JStr("internal_error"), severity |-> JStr("error")]>>]

\* lines 125-137: the result of the catch block
FailSafe(stdout) ==
    [error_count |-> JNum(1),
     warning_count |-> JNum(0),
     diagnostics |->
        <<[file |-> JStr("unknown"), line |-> JNum(0),
           message |-> JStr("Failed to parse Biome JSON output: "
                            \o Substring0(stdout, 200)),
           code |-> JStr("internal_error"), severity |-> JStr("error")]>>]

\* reported diagnostics (src/packages/biome-runner/mcp/index.test.ts 15-27)
D_error ==
    JObj([severity |-> JStr("error"), category |-> JStr("lint/a"),
          description |-> JStr("bad"),
          location |-> JObj([path |-> JObj([file |-> JStr("a.ts")]),
                             span |-> JObj([start |-> JObj([line |-> JNum(4)])])]),
          advice |-> JArr(<<JStr("fix")>>)])
D_warning == JObj([severity |-> JStr("warning"), message |-> JStr("odd")])
D_info    == JObj([severity |-> JStr("info"), description |-> JStr("note")])

\* what the array `diagnostics` of a report may hold
DiagCorpus == {D_error, D_warning, D_info, JNull, JNum(1)}

\* the summary of a report: <<>> when the report has none
S_zero == JObj([errors |-> JNum(0), warnings |-> JNum(0)])
S_full == JObj([errors |-> JNum(3), warnings |-> JNum(7)])
S_part == JObj([warnings |-> JNum(7)])
\* the summary a write run prints: the number of files it changed
S_changed == JObj([changed |-> JNum(2)])
Summaries == {<<>>, <<S_zero>>, <<S_full>>, <<S_part>>, <<S_changed>>}

\* the report with the diagnostics ds and the summary s, each <<>> or <<v>>
Report(ds, s) ==
    JObj([k \in {"diagnostics" : x \in 1..Len(ds)} \cup {"summary" : x \in 1..Len(s)} |->
            IF k = "diagnostics" THEN ds[1] ELSE s[1]])

Reports ==
    {Report(ds, s) :
        ds \in {<<>>} \cup {<<JArr(l)>> : l \in UNION {[1..n -> DiagCorpus] : n \in 0..MaxDiags}},
        s \in Summaries}

\* JSON values that are no report
NonReports ==
    {JNull, JNum(5), JStr("ok"), JArr(<<>>), JArr(<<D_error>>),
     Report(<<JNum(5)>>, <<>>), Report(<<JStr("ab")>>, <<>>),
     Report(<<JObj(<<>>)>>, <<>>)}

JsonValues == Reports \cup NonReports

\* the text of every value
JsonText == {<<Stringify(v), v>> : v \in JsonValues}

RECURSIVE Repeat(_, _)
\* s.repeat(n)
Repeat(s, n) ==
    IF n = 0 THEN ""
    ELSE IF n = 1 THEN s
    ELSE Repeat(s, n \div 2) \o Repeat(s, n - (n \div 2))

\* texts that are not JSON (index.test.ts line 32), some longer than the
\* prefix the fail-safe message keeps
InvalidTexts ==
    {"", "not json", Repeat("x", 199), Repeat("x", 200), Repeat("x", 200) \o "y",
     Repeat("x", 200) \o Repeat("y", 50)}

BiomeInputs == {p[1] : p \in JsonText} \cup InvalidTexts

\* line 95, JSON.parse(text): <<>> when it throws a SyntaxError
JSONparse(text) ==
    LET ps == {p \in JsonText : p[1] = text}
    IN  IF ps = {} THEN <<>> ELSE <<(CHOOSE p \in ps : TRUE)[2]>>

RECURSIVE Collect(_, _)
\* lines 99-110: the loop over the elements ds, none of them null
Collect(diagnostics, ds) ==
    IF Len(ds) = 0 THEN diagnostics
    ELSE Collect(pushDiagnostic(diagnostics, Head(ds)), Tail(ds))

\* a throw inside the loop over the elements of the iterable value v
ThrowsInLoop(v) == \E i \in DOMAIN Elements(v) : IsNullish(Elements(v)[i])

parseBiomeOutput(stdout) ==
    LET p == JSONparse(stdout)
        report == p[1]
        ds == Get(report, "diagnostics")
    IN  IF p = <<>> \/ IsNullish(report) THEN FailSafe(stdout)
        ELSE IF ~Truthy(ds) THEN LintSummaryOf(report, <<>>)
        ELSE IF ~IsIterable(ds) \/ ThrowsInLoop(ds) THEN FailSafe(stdout)
        ELSE LintSummaryOf(report, Collect(<<>>, Elements(ds)))

---------------------------------------------------------------------------
(* One call of a parser as a state machine.  The call is of                *)
(* parseBunTestOutput when pc starts at "start", of parseTscOutput when    *)
(* tsc.pc starts at "scan", of parseBiomeOutput when biome.pc starts at    *)
(* "start"; the other two stay "idle".                                      *)

\* no call of parseTscOutput
TscIdle ==
    [pc |-> "idle", output |-> <<T_empty>>, lastIndex |-> 1, errors |-> <<>>,
     result |-> <<>>]

\* mutant of TscCall: `errors` outlives the call, as a variable of the
\* module would
TscCall_sharedErrors(prev, out) ==
    [prev EXCEPT !.pc = "scan", !.output = out, !.lastIndex = 1]

\* part_000 lines 104-109: parseTscOutput(out) is entered when the call
\* before it left prev: the parameter is bound (104), `errors` is declared
\* empty (105) and the expression and its iterator are created (108-109);
\* nothing else is assigned before the return at line 123
TscCall(prev, out) ==
    [prev EXCEPT !.pc = "scan", !.output = out, !.lastIndex = 1, !.errors = <<>>]

\* no call of parseBiomeOutput
BiomeIdle ==
    [pc |-> "idle", stdout |-> "", report |-> JUndefined, diagnostics |-> <<>>,
     k |-> 0, result |-> <<>>]

\* README.md lines 93-94: parseBiomeOutput(text) is entered
BiomeCall(text) ==
    [pc |-> "start", stdout |-> text, report |-> JUndefined, diagnostics |-> <<>>,
     k |-> 0, result |-> <<>>]

\* no call of runBunTests
RunIdle ==
    [pc |-> "idle", stdout |-> <<L_empty>>, stderr |-> <<L_empty>>, exitCode |-> 0,
     timedOut |-> FALSE, summary |-> <<>>, outcome |-> "none"]

\* no call of runBiomeFix
FixIdle ==
    [pc |-> "idle", runs |-> <<>>, formatStdout |-> "", checkStdout |-> "",
     formatFixed |-> JNum(0), lintFixed |-> JNum(0), recheckStdout |-> "",
     checked |-> <<>>, remaining |-> <<>>,
     callbacks |-> 0]

\* the three ways a call starts, with its argument from the sets bun, ts, bi
Calls(bun, ts, bi) ==
    \/ /\ pc = "start"
       /\ output \in bun
       /\ tsc = TscIdle
       /\ biome = BiomeIdle
    \/ /\ pc = "idle"
       /\ output = <<L_empty>>
       /\ tsc \in {TscCall(TscIdle, out) : out \in ts}
       /\ biome = BiomeIdle
    \/ /\ pc = "idle"
       /\ output = <<L_empty>>
       /\ tsc = TscIdle
       /\ biome \in {BiomeCall(text) : text \in bi}

Init ==
    /\ Calls(Inputs, TscInputs, BiomeInputs)
    /\ log = <<>>
    /\ run = RunIdle
    /\ fix = FixIdle
    /\ idx = 0
    /\ passed = 0
    /\ failedFromSummary = <<>>
    /\ currentFailure = <<>>
    /\ failures = <<>>
    /\ result = <<>>
    /\ opened = <<>>
    /\ origins = <<>>
    /\ discarded = <<>>

\* lines 134-145: the summary says 0 failures, return at once
ShortCircuit ==
    /\ pc = "start"
    /\ FailedFromSummaryOf(output) = <<0>>
    /\ passed' = PassedOf(output)
    /\ failedFromSummary' = FailedFromSummaryOf(output)
    /\ result' = <<ShortCircuitSummary(PassedOf(output))>>
    /\ pc' = "done"
    /\ UNCHANGED <<output, idx, currentFailure, failures, opened, origins, discarded>>
    /\ UNCHANGED <<tsc, biome, log, run, fix>>

\* lines 134-148, 173-176: otherwise enter parseFailureDetails
BeginDetails ==
    /\ pc = "start"
    /\ FailedFromSummaryOf(output) # <<0>>
    /\ passed' = PassedOf(output)
    /\ failedFromSummary' = FailedFromSummaryOf(output)
    /\ currentFailure' = <<>>
    /\ failures' = <<>>
    /\ idx' = 1
    /\ pc' = "lines"
    /\ UNCHANGED <<output, result, opened, origins, discarded>>
    /\ UNCHANGED <<tsc, biome, log, run, fix>>

AtLine(rule) ==
    /\ pc = "lines"
    /\ idx <= Len(output)
    /\ Rule(output[idx]) = rule

ParseState == [currentFailure |-> currentFailure, failures |-> failures]

Advance(st) ==
    /\ currentFailure' = st.currentFailure
    /\ failures' = st.failures
    /\ idx' = idx + 1
    /\ UNCHANGED <<output, pc, passed, failedFromSummary, result, discarded>>
    /\ UNCHANGED <<tsc, biome, log, run, fix>>

\* history: what opened the failure that is open after a step to `new`
OpenedAfter(new, rule) ==
    IF new.currentFailure = <<>> THEN <<>>
    ELSE IF currentFailure = <<>> \/ rule = "start" THEN <<[by |-> rule, at |-> idx]>>
    ELSE opened

\* history: the origin of the failure pushed by a step to failures `fs`
OriginsAfter(fs, via) ==
    IF Len(fs) > Len(failures)
    THEN Append(origins, [by |-> opened[1].by, at |-> opened[1].at, via |-> via])
    ELSE origins

\* line 179: `if (!line) continue`
EmptyLine ==
    /\ AtLine("empty")
    /\ Advance(ParseState)
    /\ opened' = OpenedAfter(ParseState, "empty")
    /\ origins' = OriginsAfter(ParseState.failures, "empty")

\* lines 183-193
TerminalMarker ==
    /\ AtLine("terminal")
    /\ Advance(onFailMarker(ParseState, output[idx]))
    /\ opened' = OpenedAfter(onFailMarker(ParseState, output[idx]), "terminal")
    /\ origins' = OriginsAfter(onFailMarker(ParseState, output[idx]).failures, "terminal")

\* lines 196-203
StartMarker ==
    /\ AtLine("start")
    /\ Advance(onStartMarker(ParseState, output[idx]))
    /\ opened' = OpenedAfter(onStartMarker(ParseState, output[idx]), "start")
    /\ origins' = OriginsAfter(onStartMarker(ParseState, output[idx]).failures, "start")

\* lines 209-221
ErrorLine ==
    /\ AtLine("error")
    /\ Advance(onErrorLine(ParseState, output[idx]))
    /\ opened' = OpenedAfter(onErrorLine(ParseState, output[idx]), "error")
    /\ origins' = OriginsAfter(onErrorLine(ParseState, output[idx]).failures, "error")

\* lines 224-239
ContentLine ==
    /\ AtLine("content")
    /\ Advance(onContent(ParseState, output[idx]))
    /\ opened' = OpenedAfter(onContent(ParseState, output[idx]), "content")
    /\ origins' = OriginsAfter(onContent(ParseState, output[idx]).failures, "content")

\* lines 245-249: the loop is over
EndOfInput ==
    /\ pc = "lines"
    /\ idx > Len(output)
    /\ failures' = endOfInput(ParseState)
    /\ origins' = OriginsAfter(endOfInput(ParseState), "end")
    /\ discarded' = IF opened # <<>> /\ Len(endOfInput(ParseState)) = Len(failures)
                    THEN Append(discarded, opened[1])
                    ELSE discarded
    /\ pc' = "flushed"
    /\ UNCHANGED <<output, idx, passed, failedFromSummary, currentFailure, result, opened>>
    /\ UNCHANGED <<tsc, biome, log, run, fix>>

\* lines 151-158
Return ==
    /\ pc = "flushed"
    /\ result' = <<FinalSummary(passed, failedFromSummary, failures)>>
    /\ pc' = "done"
    /\ UNCHANGED <<output, idx, passed, failedFromSummary, currentFailure, failures,
                   opened, origins, discarded>>
    /\ UNCHANGED <<tsc, biome, log, run, fix>>

\* part_000 lines 111-121: the iterator yields the next match
TscMatch ==
    /\ tsc.pc = "scan"
    /\ matchFrom(JoinLines(tsc.output), tsc.lastIndex) # <<>>
    /\ tsc' = [tsc EXCEPT
                 !.errors = Append(@, TscErrorOf(matchFrom(JoinLines(tsc.output),
                                                           tsc.lastIndex)[1])),
                 !.lastIndex = matchFrom(JoinLines(tsc.output), tsc.lastIndex)[1].last + 1]
    /\ UNCHANGED <<output, pc, idx, passed, failedFromSummary, currentFailure, failures,
                   result, opened, origins, discarded, biome, log, run, fix>>

\* part_000 line 123: no match is left
TscReturn ==
    /\ tsc.pc = "scan"
    /\ matchFrom(JoinLines(tsc.output), tsc.lastIndex) = <<>>
    /\ tsc' = [tsc EXCEPT !.pc = "done", !.result = <<TscResult(tsc.errors)>>]
    /\ UNCHANGED <<output, pc, idx, passed, failedFromSummary, currentFailure, failures,
                   result, opened, origins, discarded, biome, log, run, fix>>

\* the value of report.diagnostics
ReportedDiagnostics == Get(biome.report, "diagnostics")

\* README.md lines 95-96: JSON.parse returns, `report` is bound and
\* `diagnostics` is declared empty
JsonParse ==
    /\ biome.pc = "start"
    /\ JSONparse(biome.stdout) # <<>>
    /\ biome' = [biome EXCEPT !.pc = "parsed", !.report = JSONparse(biome.stdout)[1],
                              !.diagnostics = <<>>]
    /\ UNCHANGED <<output, pc, idx, passed, failedFromSummary, currentFailure, failures,
                   result, opened, origins, discarded, tsc, log, run, fix>>

\* README.md line 95: JSON.parse throws
SyntaxError ==
    /\ biome.pc = "start"
    /\ JSONparse(biome.stdout) = <<>>
    /\ biome' = [biome EXCEPT !.pc = "catch"]
    /\ UNCHANGED <<output, pc, idx, passed, failedFromSummary, currentFailure, failures,
                   result, opened, origins, discarded, tsc, log, run, fix>>

\* README.md line 98: report.diagnostics is falsy
SkipDiagnostics ==
    /\ biome.pc = "parsed"
    /\ ~IsNullish(biome.report)
    /\ ~Truthy(ReportedDiagnostics)
    /\ biome' = [biome EXCEPT !.pc = "summary"]
    /\ UNCHANGED <<output, pc, idx, passed, failedFromSummary, currentFailure, failures,
                   result, opened, origins, discarded, tsc, log, run, fix>>

\* README.md lines 98-99: the for-of loop starts
EnterLoop ==
    /\ biome.pc = "parsed"
    /\ ~IsNullish(biome.report)
    /\ Truthy(ReportedDiagnostics)
    /\ IsIterable(ReportedDiagnostics)
    /\ biome' = [biome EXCEPT
                   !.pc = IF Len(Elements(ReportedDiagnostics)) = 0
                          THEN "summary" ELSE "loop",
                   !.k = 1]
    /\ UNCHANGED <<output, pc, idx, passed, failedFromSummary, currentFailure, failures,
                   result, opened, origins, discarded, tsc, log, run, fix>>

\* README.md lines 99-110: one turn of the loop
NextDiagnostic ==
    /\ biome.pc = "loop"
    /\ ~IsNullish(Elements(ReportedDiagnostics)[biome.k])
    /\ biome' = [biome EXCEPT
                   !.diagnostics = pushDiagnostic(@, Elements(ReportedDiagnostics)[biome.k]),
                   !.k = @ + 1,
                   !.pc = IF biome.k = Len(Elements(ReportedDiagnostics))
                          THEN "summary" ELSE "loop"]
    /\ UNCHANGED <<output, pc, idx, passed, failedFromSummary, currentFailure, failures,
                   result, opened, origins, discarded, tsc, log, run, fix>>

\* README.md lines 98-100: a TypeError inside the try block: a property of
\* null is read, or a value that is not iterable is iterated
TypeError ==
    /\ \/ /\ biome.pc = "parsed"
          /\ \/ IsNullish(biome.report)
             \/ Truthy(ReportedDiagnostics) /\ ~IsIterable(ReportedDiagnostics)
       \/ /\ biome.pc = "loop"
          /\ IsNullish(Elements(ReportedDiagnostics)[biome.k])
    /\ biome' = [biome EXCEPT !.pc = "catch"]
    /\ UNCHANGED <<output, pc, idx, passed, failedFromSummary, currentFailure, failures,
                   result, opened, origins, discarded, tsc, log, run, fix>>

\* README.md lines 113-123
Summarise ==
    /\ biome.pc = "summary"
    /\ biome' = [biome EXCEPT
                   !.pc = "done",
                   !.result = <<LintSummaryOf(biome.report, biome.diagnostics)>>]
    /\ UNCHANGED <<output, pc, idx, passed, failedFromSummary, currentFailure, failures,
                   result, opened, origins, discarded, tsc, log, run, fix>>

\* README.md lines 124-138
Catch ==
    /\ biome.pc = "catch"
    /\ biome' = [biome EXCEPT !.pc = "done", !.result = <<FailSafe(biome.stdout)>>]
    /\ UNCHANGED <<output, pc, idx, passed, failedFromSummary, currentFailure, failures,
                   result, opened, origins, discarded, tsc, log, run, fix>>

Next ==
    \/ ShortCircuit
    \/ BeginDetails
    \/ EmptyLine
    \/ TerminalMarker
    \/ StartMarker
    \/ ErrorLine
    \/ ContentLine
    \/ EndOfInput
    \/ Return
    \/ TscMatch
    \/ TscReturn
    \/ JsonParse
    \/ SyntaxError
    \/ SkipDiagnostics
    \/ EnterLoop
    \/ NextDiagnostic
    \/ TypeError
    \/ Summarise
    \/ Catch

Spec == Init /\ [][Next]_vars

---------------------------------------------------------------------------
(* Calls one after another in one process, as the tests and the tool       *)
(* handlers make them                                                      *)

\* most calls in a row: two calls on one text and a call between them
MaxCalls == 3

\* the arguments of the calls made in a row
CallBun ==
    {<<L_fail0>>, <<L_glyph, L_empty>>, <<L_err, L_frameA, L_term>>, <<L_err, L_text>>}

CallTsc == {<<T_errA, T_errB>>, <<T_warn>>, <<T_nomsg, T_errA>>}

CallBiome ==
    {"", "null", "5",
     Stringify(Report(<<JArr(<<D_error, D_info>>)>>, <<>>)),
     Stringify(Report(<<JArr(<<D_warning>>)>>, <<S_full>>))}

\* the call that has just returned, <<>> while one is under way
Finished ==
    IF pc = "done"
    THEN <<[fn |-> "parseBunTestOutput", input |-> output, result |-> result[1]]>>
    ELSE IF tsc.pc = "done"
    THEN <<[fn |-> "parseTscOutput", input |-> tsc.output, result |-> tsc.result[1]]>>
    ELSE IF biome.pc = "done"
    THEN <<[fn |-> "parseBiomeOutput", input |-> biome.stdout, result |-> biome.result[1]]>>
    ELSE <<>>

InitCalls ==
    /\ Calls(CallBun, CallTsc, CallBiome)
    /\ log = <<>>
    /\ run = RunIdle
    /\ fix = FixIdle
    /\ idx = 0
    /\ passed = 0
    /\ failedFromSummary = <<>>
    /\ currentFailure = <<>>
    /\ failures = <<>>
    /\ result = <<>>
    /\ opened = <<>>
    /\ origins = <<>>
    /\ discarded = <<>>

\* after a call has returned the next one is entered.  Entering a function
\* binds its parameter and nothing else: what the earlier calls left in
\* the variables stays there until a statement of the new call assigns it
\* (part_001 lines 134-140 and 173-176, part_000 lines 105-109, README.md
\* lines 95-96), so a variable read before it is assigned would show in
\* the result.  opened, origins and discarded are the history of the call
\* under way and start empty.
NewCall ==
    /\ Finished # <<>>
    /\ Len(log) + 1 < MaxCalls
    /\ log' = Append(log, Finished[1])
    /\ UNCHANGED <<run, fix>>
    /\ \/ /\ pc' = "start"
          /\ output' \in CallBun
          /\ tsc' = [tsc EXCEPT !.pc = "idle"]
          /\ biome' = [biome EXCEPT !.pc = "idle"]
       \/ /\ pc' = "idle"
          /\ output' = output
          /\ tsc' \in {TscCall(tsc, out) : out \in CallTsc}
          /\ biome' = [biome EXCEPT !.pc = "idle"]
       \/ /\ pc' = "idle"
          /\ output' = output
          /\ tsc' = [tsc EXCEPT !.pc = "idle"]
          /\ biome' \in {[biome EXCEPT !.pc = "start", !.stdout = text] :
                            text \in CallBiome}
    /\ UNCHANGED <<idx, passed, failedFromSummary, currentFailure, failures, result>>
    /\ opened' = <<>>
    /\ origins' = <<>>
    /\ discarded' = <<>>

NextCalls ==
    \/ Next
    \/ NewCall

SpecCalls == InitCalls /\ [][NextCalls]_vars

---------------------------------------------------------------------------
(* Properties *)

Returned == pc = "done"

LoopOver == pc \in {"flushed", "done"}

\* the open failure was opened by an 'error:' line seen while none was open
TentativeOpen == opened # <<>> /\ opened[1].by = "error"

\* C1: a block tentatively opened by an 'error:' line and still open at the
\* end of input is discarded: the end of input pushes nothing, no entry of
\* failures comes from that block, and the block is recorded as dropped,
\* whatever was accumulated into it.
C1_TentativeDiscardedAtEnd ==
    (LoopOver /\ TentativeOpen) =>
        /\ \A k \in 1..Len(origins) :
              origins[k].via # "end" /\ origins[k].at # opened[1].at
        /\ Len(failures) = Len(origins)
        /\ discarded = <<opened[1]>>
        /\ (Returned => result[1].failures = failures)

\* a tentative block that accumulated a message line, a stack and a location
\* is open when the call returns
C1_Witness ==
    /\ Returned
    /\ TentativeOpen
    /\ currentFailure[1].stack # <<>>
    /\ currentFailure[1].line # <<>>
    /\ Len(currentFailure[1].message) > Len(Trim(output[opened[1].at]))

\* C2: a block tentatively opened by an orphan 'error:' line gets into
\* failures only through a terminal marker; a start marker that arrives
\* first discards it.
C2_TentativeKeptOnlyByTerminal ==
    \A k \in 1..Len(origins) :
        origins[k].by = "error" => origins[k].via = "terminal"

\* the text has a line that reads "0 fail"
HasZeroFailTrailer(out) ==
    \E l \in 1..Len(out) : Trim(out[l]) = <<"0", " ", "fail">>

\* C3: every input that contains a '0 fail' trailer line returns no
\* failures, whatever lines precede the trailer.
C3_ZeroFailTrailerNoFailures ==
    (Returned /\ HasZeroFailTrailer(output)) => result[1].failures = <<>>

\* the first '<N> fail' token of the input has N = 0
FirstFailIsZero(out) ==
    CountMatch(out, "fail") # <<>> /\ ParseInt(CountMatch(out, "fail")[1]) = 0

\* C4: when the first '<N> fail' token has N = 0 the call returns exactly
\* {passed: P, failed: 0, total: P, failures: []} with P the first
\* '<N> pass' count (0 without one), and the line parser has not run: no
\* line was visited, no failure opened, pushed or dropped.
C4_ShortCircuit ==
    (Returned /\ FirstFailIsZero(output)) =>
        LET P == IF CountMatch(output, "pass") # <<>>
                 THEN ParseInt(CountMatch(output, "pass")[1]) ELSE 0
        IN  /\ result = <<[passed |-> P, failed |-> 0, total |-> P, failures |-> <<>>]>>
            /\ idx = 0
            /\ currentFailure = <<>> /\ failures = <<>>
            /\ opened = <<>> /\ origins = <<>> /\ discarded = <<>>

\* a call returned by the short circuit on a text with a pass count whose
\* lines the failure parser would have turned into a failure
C4_Witness ==
    /\ Returned
    /\ FirstFailIsZero(output)
    /\ result[1].passed > 0
    /\ parseFailureDetails(output) # <<>>

\* C5: failed is the first '<N> fail' count when there is one and
\* failures.length otherwise, passed is the first '<N> pass' count when
\* there is one and 0 otherwise, total = passed + failed, and the empty
\* input returns {0, 0, 0, []}.
C5_SummaryCounts ==
    Returned =>
        LET r  == result[1]
            pm == CountMatch(output, "pass")
            fm == CountMatch(output, "fail")
        IN  /\ r.failed = IF fm # <<>> THEN ParseInt(fm[1]) ELSE Len(r.failures)
            /\ r.passed = IF pm # <<>> THEN ParseInt(pm[1]) ELSE 0
            /\ r.total = r.passed + r.failed
            /\ (output = <<L_empty>> =>
                   r = [passed |-> 0, failed |-> 0, total |-> 0, failures |-> <<>>])

\* a returned summary whose failed count, taken from the trailer, differs
\* from the number of failures it lists
C5_Witness ==
    /\ Returned
    /\ CountMatch(output, "fail") # <<>>
    /\ result[1].failures # <<>>
    /\ result[1].failed # Len(result[1].failures)
    /\ result[1].passed > 0

\* the stack-frame lines among lines from..to that resolve a location
ResolvingFrames(from, to) ==
    {k \in from..to : /\ Rule(output[k]) = "content"
                      /\ StartsWithAt(Trim(output[k]))
                      /\ frameMatch(output[k]) # <<>>}

\* C6: within one open block only the first stack-frame line that resolves
\* a location sets file and line: while the block is open they are those of
\* the first resolving frame seen since the block was opened.
C6_FirstFrameWins ==
    (pc = "lines" /\ opened # <<>>) =>
        LET fr == ResolvingFrames(opened[1].at + 1, idx - 1)
        IN  fr # {} =>
              LET m == frameMatch(output[Min(fr)])[1]
              IN  /\ currentFailure[1].file = m.file
                  /\ currentFailure[1].line = <<ParseInt(m.line)>>

\* a failure never changes once it is in failures
FailuresKept ==
    /\ Len(failures') >= Len(failures)
    /\ \A k \in 1..Len(failures) : failures'[k] = failures[k]

C7_Step ==
    /\ (AtLine("terminal") /\ currentFailure # <<>>) =>
          /\ failures' = Append(failures,
                 [currentFailure[1] EXCEPT
                     !.message = failMatch(output[idx])[1] \o <<":", " ">> \o @])
          /\ currentFailure' = <<>>
    /\ (/\ pc = "lines" /\ idx <= Len(output)
        /\ currentFailure = <<>>
        /\ Rule(output[idx]) \in {"empty", "content"}) =>
          /\ failures' = failures
          /\ currentFailure' = <<>>
    /\ pc = "lines" => FailuresKept

\* C7: a terminal marker seen while a block is open appends that block to
\* failures with the message '<name>: <accumulated message>' and leaves no
\* block open; a later line that is no marker and no 'error:' line is then
\* added to nothing, and no entry of failures ever changes.
C7_TerminalCloses == [][C7_Step]_vars

\* a block closed by a terminal marker, followed by a text line that was
\* visited with no block open
C7_Witness ==
    /\ pc = "lines"
    /\ idx = 4
    /\ Rule(output[1]) = "error"
    /\ Rule(output[2]) = "terminal"
    /\ Rule(output[3]) = "content" /\ Trim(output[3]) # <<>>
    /\ ~IsSourceContext(output[3]) /\ ~StartsWithAt(Trim(output[3]))
    /\ currentFailure = <<>>
    /\ Len(failures) = 1
    /\ failures[1].message = failMatch(output[2])[1] \o <<":", " ">> \o Trim(output[1])

RemoveAt(s, k) == SubSeq(s, 1, k - 1) \o SubSeq(s, k + 1, Len(s))

NoParse == [currentFailure |-> <<>>, failures |-> <<>>]

\* the terminal marker lines of a text that arrive while no block is open
IdleMarkers(out) ==
    {k \in 1..Len(out) :
        /\ Rule(out[k]) = "terminal"
        /\ RunLines(NoParse, SubSeq(out, 1, k - 1), 1).currentFailure = <<>>}

\* the step on a terminal marker met with no block open pushes nothing and
\* opens nothing
C8_Step ==
    (AtLine("terminal") /\ currentFailure = <<>>) =>
        (failures' = failures /\ currentFailure' = <<>>)

\* the failures at the end of the loop are those of the same text without
\* the idle marker line
C8_Final ==
    (LoopOver /\ idx > 0) =>
        \A k \in IdleMarkers(output) :
            failures = parseFailureDetails(RemoveAt(output, k))

\* C8: a terminal marker that arrives while no block is open changes
\* nothing: the step adds no failure and opens no block, and the lines that
\* follow are treated as if the marker line were absent, so the failures
\* are those of the text without that line.
C8_IdleMarkerIsNoop == [][C8_Step]_vars /\ []C8_Final

\* the loop is over on a text whose first line is a terminal marker met with
\* no block open, and the lines after it produced a failure
C8_Witness ==
    /\ LoopOver
    /\ 1 \in IdleMarkers(output)
    /\ Len(output) > 1
    /\ failures # <<>>

\* C9: every block opened by a start marker starts as {file: 'unknown',
\* message: the trimmed marker line} and is in failures exactly once when
\* the loop is over, and the failures opened by start markers are in the
\* order of their markers.
C9_StartBlocksCommittedOnce ==
    /\ (pc = "lines" /\ idx > 1 /\ Rule(output[idx - 1]) = "start") =>
          currentFailure = <<[file |-> <<"unknown">>, message |-> Trim(output[idx - 1]),
                              line |-> <<>>, stack |-> <<>>]>>
    /\ (LoopOver /\ idx > 0) =>
          \A k \in 1..Len(output) :
              Rule(output[k]) = "start" =>
                 Cardinality({j \in 1..Len(origins) :
                                 origins[j].by = "start" /\ origins[j].at = k}) = 1
    /\ \A i, j \in 1..Len(origins) :
          (i < j /\ origins[i].by = "start" /\ origins[j].by = "start") =>
             origins[i].at < origins[j].at

\* the text is N >= 1 well-formed newer-format blocks, with or without the
\* trailer line after them
IsBlockInput(out) ==
    /\ Len(out) >= 4
    /\ Len(out) % 4 \in {0, 1}
    /\ \A i \in 1..(Len(out) \div 4) : SubSeq(out, 4 * i - 3, 4 * i) \in Blocks
    /\ Len(out) % 4 = 1 => out[Len(out)] = L_fail2

\* the failure that the four lines of one block describe
BlockFailure(b) ==
    [file    |-> frameMatch(b[3])[1].file,
     line    |-> <<ParseInt(frameMatch(b[3])[1].line)>>,
     message |-> failMatch(b[4])[1] \o <<":", " ">> \o Trim(b[1]) \o <<"\n">> \o Trim(b[2]),
     stack   |-> b[3] \o <<"\n">>]

\* C10: for a text made of N consecutive well-formed newer-format blocks
\* the call returns N failures in the order of the blocks, the i-th built
\* from the four lines of the i-th block and nothing else.
C10_BlocksIsolated ==
    (Returned /\ IsBlockInput(output)) =>
        result[1].failures =
            [i \in 1..(Len(output) \div 4) |-> BlockFailure(SubSeq(output, 4 * i - 3, 4 * i))]

\* a call returned on two blocks that differ in every line
C10_Witness ==
    /\ Returned
    /\ IsBlockInput(output)
    /\ Len(output) >= 8
    /\ \A j \in 1..4 : output[j] # output[4 + j]
    /\ Len(result[1].failures) = 2

---------------------------------------------------------------------------
(* Properties of parseTscOutput *)

TscReturned == tsc.pc = "done"

\* the line, taken alone, has the form `path(line,col): error TS<digits>: message`
IsTscErrorLine(line) == errorPatternAt(line, 1) # <<>>

RECURSIVE LineErrors(_)
\* one error for each line of that form, in the order of the lines, with
\* the fields of that line
LineErrors(lines) ==
    IF Len(lines) = 0 THEN <<>>
    ELSE (IF IsTscErrorLine(Head(lines))
          THEN <<TscErrorOf(errorPatternAt(Head(lines), 1)[1])>>
          ELSE <<>>)
         \o LineErrors(Tail(lines))

\* C11: parseTscOutput returns one error for each input line of the form
\* `path(line,col): error TS<digits>: message`, in input order, with the
\* fields taken from that line, errorCount is the number of errors, and a
\* line that has not that form contributes nothing.
C11_OneErrorPerMatchingLine ==
    TscReturned => tsc.result = <<TscResult(LineErrors(tsc.output))>>

---------------------------------------------------------------------------
(* Properties of parseBiomeOutput *)

BiomeReturned == biome.pc = "done"

\* the text is a report: a JSON object whose `diagnostics`, when it has
\* one, is a list of objects
IsReportText(text) ==
    /\ JSONparse(text) # <<>>
    /\ JSONparse(text)[1] \in Reports
    /\ LET ds == Get(JSONparse(text)[1], "diagnostics")
       IN  ds # JUndefined => \A i \in DOMAIN ds.v : ds.v[i].t = "object"

\* the diagnostics that the report of the text holds
DiagnosticsOf(text) ==
    LET ds == Get(JSONparse(text)[1], "diagnostics")
    IN  IF ds = JUndefined THEN <<>> ELSE ds.v

RECURSIVE OnlySeverities(_, _)
\* the diagnostics of ds whose severity is in sevs, in the order of ds
OnlySeverities(ds, sevs) ==
    IF Len(ds) = 0 THEN <<>>
    ELSE (IF Get(Head(ds), "severity") \in {JStr(x) : x \in sevs}
          THEN <<Head(ds)>> ELSE <<>>)
         \o OnlySeverities(Tail(ds), sevs)

\* C12: for a parseable report the call emits exactly one diagnostic for
\* each reported diagnostic of severity 'error' or 'warning', in report
\* order, none for any other severity, and every emitted diagnostic has
\* severity 'error' or 'warning'.
C12_OnePerErrorOrWarning ==
    (BiomeReturned /\ IsReportText(biome.stdout)) =>
        LET kept == OnlySeverities(DiagnosticsOf(biome.stdout), {"error", "warning"})
            emitted == biome.result[1].diagnostics
        IN  /\ emitted = [i \in 1..Len(kept) |-> LintDiagnosticOf(kept[i])]
            /\ \A i \in DOMAIN emitted :
                  emitted[i].severity \in {JStr("error"), JStr("warning")}

\* a call returned on a report with an 'info' diagnostic before a 'warning'
C12_Witness ==
    /\ BiomeReturned
    /\ IsReportText(biome.stdout)
    /\ DiagnosticsOf(biome.stdout) = <<D_info, D_warning>>
    /\ Len(biome.result[1].diagnostics) = 1
    /\ biome.result[1].diagnostics[1].severity = JStr("warning")

\* report.summary of the report of the text, JUndefined when it has none
SummaryOf(text) == Get(JSONparse(text)[1], "summary")

\* the number of emitted diagnostics of severity sev
EmittedOf(text, sev) == JNum(Len(OnlySeverities(DiagnosticsOf(text), {sev})))

\* C13, as stated: error_count and warning_count are taken from the summary
\* object of the report when the report has one, and are otherwise the
\* numbers of emitted diagnostics of severity 'error' and 'warning'.
C13_CountsFromSummaryIfPresent ==
    (BiomeReturned /\ IsReportText(biome.stdout)) =>
        IF SummaryOf(biome.stdout) # JUndefined
        THEN /\ biome.result[1].error_count = Get(SummaryOf(biome.stdout), "errors")
             /\ biome.result[1].warning_count = Get(SummaryOf(biome.stdout), "warnings")
        ELSE /\ biome.result[1].error_count = EmittedOf(biome.stdout, "error")
             /\ biome.result[1].warning_count = EmittedOf(biome.stdout, "warning")

\* C13, amended: each count is taken from the summary when the summary has
\* that member (`errors`, `warnings`), and is otherwise the number of
\* emitted diagnostics of that severity, whether the report has no summary
\* or a summary without the member; a report without a summary that holds
\* one 'error' and one 'info' diagnostic yields 1 and 0.
C13_CountsPerMember ==
    (BiomeReturned /\ IsReportText(biome.stdout)) =>
        LET summary == SummaryOf(biome.stdout)
        IN  /\ biome.result[1].error_count =
                  IF ~IsNullish(Get(summary, "errors")) THEN Get(summary, "errors")
                  ELSE EmittedOf(biome.stdout, "error")
            /\ biome.result[1].warning_count =
                  IF ~IsNullish(Get(summary, "warnings")) THEN Get(summary, "warnings")
                  ELSE EmittedOf(biome.stdout, "warning")
            /\ (summary = JUndefined /\ DiagnosticsOf(biome.stdout) = <<D_error, D_info>>) =>
                  /\ biome.result[1].error_count = JNum(1)
                  /\ biome.result[1].warning_count = JNum(0)

\* a call returned on a report whose summary has `warnings` but no `errors`:
\* one count is derived, the other is read
C13_Witness ==
    /\ BiomeReturned
    /\ IsReportText(biome.stdout)
    /\ SummaryOf(biome.stdout) = S_part
    /\ DiagnosticsOf(biome.stdout) = <<D_error, D_info>>
    /\ biome.result[1].error_count = JNum(1)
    /\ biome.result[1].warning_count = JNum(7)

\* the call is under way
BiomeRunning == biome.pc \in {"start", "parsed", "loop", "summary", "catch"}

\* C14: parseBiomeOutput never raises: a call under way always has a next
\* step inside the function and ends with a result; for a text that is not
\* JSON the result has error_count 1, warning_count 0 and exactly one
\* diagnostic, of severity 'error', code 'internal_error', file 'unknown',
\* line 0, whose message embeds the first 200 characters of the input at
\* most.
C14_InvalidJsonFailSafe ==
    /\ BiomeRunning =>
          ENABLED (JsonParse \/ SyntaxError \/ SkipDiagnostics \/ EnterLoop
                     \/ NextDiagnostic \/ TypeError \/ Summarise \/ Catch)
    /\ BiomeReturned => biome.result # <<>>
    /\ (BiomeReturned /\ JSONparse(biome.stdout) = <<>>) =>
          LET r == biome.result[1]
              n == IF Len(biome.stdout) > 200 THEN 200 ELSE Len(biome.stdout)
          IN  /\ r.error_count = JNum(1)
              /\ r.warning_count = JNum(0)
              /\ Len(r.diagnostics) = 1
              /\ r.diagnostics[1].severity = JStr("error")
              /\ r.diagnostics[1].code = JStr("internal_error")
              /\ r.diagnostics[1].file = JStr("unknown")
              /\ r.diagnostics[1].line = JNum(0)
              /\ r.diagnostics[1].message =
                    JStr("Failed to parse Biome JSON output: " \o SubSeq(biome.stdout, 1, n))
              /\ Len(r.diagnostics[1].message.v) <= 35 + 200

\* a call returned on a text of more than 200 characters that is not JSON,
\* with a message that holds 200 of them
C14_Witness ==
    /\ BiomeReturned
    /\ JSONparse(biome.stdout) = <<>>
    /\ Len(biome.stdout) > 200
    /\ Len(biome.result[1].diagnostics[1].message.v) = 35 + 200

\* the result is the single synthetic diagnostic of the fail-safe path
IsSynthetic(r) ==
    /\ r.error_count = JNum(1)
    /\ Len(r.diagnostics) = 1
    /\ r.diagnostics[1].severity = JStr("error")
    /\ r.diagnostics[1].code = JStr("internal_error")

\* C15: whenever the text is not a report (no JSON at all, or JSON that is
\* a number, a string, an array, null, or an object whose `diagnostics` is
\* not a list of objects) the result is the single synthetic diagnostic of
\* severity 'error' with the internal-error code, and error_count is 1.
C15_NonReportIsFailSafe ==
    (BiomeReturned /\ ~IsReportText(biome.stdout)) => IsSynthetic(biome.result[1])

---------------------------------------------------------------------------
(* Properties of the three parsers together *)

\* compiler output without any diagnostic text: empty lines and free text
TscClean(out) == \A l \in 1..Len(out) : \A k \in 1..Len(out[l]) : out[l][k] # "error"

\* test output of a run without failures: a '0 fail' line, and beside it
\* only blank lines and '<N> pass' lines
BunClean(out) ==
    /\ HasZeroFailTrailer(out)
    /\ \A l \in 1..Len(out) :
          \/ Trim(out[l]) = <<>>
          \/ Trim(out[l]) = <<"0", " ", "fail">>
          \/ Len(Trim(out[l])) = 3 /\ IsDigits(Trim(out[l])[1])
             /\ Trim(out[l])[2] = " " /\ Trim(out[l])[3] = "pass"

\* a report without diagnostics: an empty list, and no summary or a summary
\* of zeros
BiomeClean(text) ==
    JSONparse(text) \in {<<Report(<<JArr(<<>>)>>, <<>>)>>, <<Report(<<JArr(<<>>)>>, <<S_zero>>)>>}

TscEmptyValued == tsc.result = <<[errorCount |-> 0, errors |-> <<>>]>>

BunEmptyValued ==
    /\ result # <<>>
    /\ result[1].failed = 0
    /\ result[1].failures = <<>>
    /\ result[1].total = result[1].passed

BiomeEmptyValued ==
    biome.result =
        <<[error_count |-> JNum(0), warning_count |-> JNum(0), diagnostics |-> <<>>]>>

\* what C16 says of parseTscOutput and of parseBunTestOutput
TscBunEmptyOrClean ==
    /\ (TscReturned /\ (tsc.output = <<T_empty>> \/ TscClean(tsc.output))) => TscEmptyValued
    /\ Returned => (BunEmptyValued \/ ~BunClean(output))
    /\ (Returned /\ output = <<L_empty>>) =>
          result = <<[passed |-> 0, failed |-> 0, total |-> 0, failures |-> <<>>]>>

\* C16, as stated: for each of the three parsers the empty input and an
\* all-clean output yield an empty-valued result (no error or failure
\* counted, an empty collection) and never an error record.
C16_EmptyOrCleanIsEmptyValued ==
    /\ TscBunEmptyOrClean
    /\ (BiomeReturned /\ (biome.stdout = "" \/ BiomeClean(biome.stdout))) => BiomeEmptyValued

\* C16, amended: parseTscOutput and parseBunTestOutput yield an
\* empty-valued result on the empty input and on all-clean output, and
\* parseBiomeOutput on an all-clean report; on the empty input, which is
\* not JSON, parseBiomeOutput returns the fail-safe record with
\* error_count 1 and the one 'internal_error' diagnostic.  No call ends
\* without a result.
C16_EmptyValuedButBiomeEmpty ==
    /\ TscBunEmptyOrClean
    /\ (BiomeReturned /\ BiomeClean(biome.stdout)) => BiomeEmptyValued
    /\ (BiomeReturned /\ biome.stdout = "") => biome.result = <<FailSafe("")>>
    /\ TscReturned => tsc.result # <<>>
    /\ Returned => result # <<>>
    /\ BiomeReturned => biome.result # <<>>

\* parseBiomeOutput returned the error record on the empty input
C16_Witness ==
    /\ BiomeReturned
    /\ biome.stdout = ""
    /\ IsSynthetic(biome.result[1])
    /\ biome.result[1].diagnostics[1].message = JStr("Failed to parse Biome JSON output: ")

---------------------------------------------------------------------------
(* More properties of parseBunTestOutput *)

\* the line has the text of a terminal marker, `(fail) name [`
IsTerminalMarker(line) == failMatch(line) # <<>>

\* no line of the text is a terminal marker or a start marker
NoMarkers(out) ==
    \A l \in 1..Len(out) : ~IsTerminalMarker(out[l]) /\ ~IsStartMarker(out[l])

\* C18: a text without any terminal marker line and without any start
\* marker line returns no failures, whatever 'error:' lines, stack-frame
\* lines and other text it holds.
C18_OrphansNeverFail ==
    Returned => (result[1].failures = <<>> \/ ~NoMarkers(output))

\* a call returned no failures on a text without markers in which an
\* 'error:' line opened a block that took a stack frame and was dropped
C18_Witness ==
    /\ Returned
    /\ NoMarkers(output)
    /\ \E l \in 1..Len(output) : StartsWithError(Trim(output[l]))
    /\ \E l \in 1..Len(output) : StartsWithAt(Trim(output[l]))
    /\ discarded # <<>>
    /\ currentFailure # <<>> /\ currentFailure[1].stack # <<>>
    /\ result[1].failures = <<>>

\* the loop is about to handle the line output[idx]
AboutToHandle == pc = "lines" /\ idx <= Len(output)

\* the step leaves the open failure and the failures as they are
ParseUntouched == currentFailure' = currentFailure /\ failures' = failures

\* C19, as stated: a source-context line is skipped whatever follows its
\* prefix and whether or not a block is open: the step that handles it
\* appends to no message and no stack, opens no block and closes none.
C19_Step == (AboutToHandle /\ IsSourceContext(output[idx])) => ParseUntouched

IsPlainSourceContext(line) ==
    IsSourceContext(line) /\ ~IncludesGlyph(line) /\ ~IsTerminalMarker(line)

\* C19, amended: a source-context line that holds neither a terminal marker
\* `(fail) name [` nor the glyph is skipped, whatever else follows its
\* prefix and whether or not a block is open: the step that handles it
\* appends to no message and no stack, opens no block and closes none.
C19_PlainStep ==
    (AboutToHandle /\ IsPlainSourceContext(output[idx])) => ParseUntouched

IsStackFrame(line) == StartsWithAt(Trim(line))

\* what the claim says of the step that handles a stack-frame line: with a
\* block open the raw line and a line break are appended to the stack of
\* that block, which stays open with its message, and no failure is
\* pushed; with no block open nothing changes
FrameAppended ==
    IF currentFailure # <<>>
    THEN /\ currentFailure' # <<>>
         /\ currentFailure'[1].stack = currentFailure[1].stack \o output[idx] \o <<"\n">>
         /\ currentFailure'[1].message = currentFailure[1].message
         /\ failures' = failures
    ELSE ParseUntouched

\* C20, as stated: every stack-frame line seen while a block is open is
\* appended raw, after the frames before it, to the stack of that block,
\* whether or not it resolved a location; seen while no block is open it
\* is ignored.
C20_Step == (AboutToHandle /\ IsStackFrame(output[idx])) => FrameAppended

IsPlainStackFrame(line) ==
    IsStackFrame(line) /\ ~IncludesGlyph(line) /\ ~IsTerminalMarker(line)

\* C20, amended: every stack-frame line that holds neither the glyph nor a
\* terminal marker `(fail) name [` is, while a block is open, appended raw,
\* after the frames before it, to the stack of that block, whether or not
\* it resolved a location; seen while no block is open it is ignored.
C20_PlainStep == (AboutToHandle /\ IsPlainStackFrame(output[idx])) => FrameAppended

---------------------------------------------------------------------------
(* Properties of calls made in a row *)

\* the value of the function fn on the text input
Apply(fn, input) ==
    CASE fn = "parseBunTestOutput" -> parseBunTestOutput(input)
      [] fn = "parseTscOutput"     -> parseTscOutput(input)
      [] fn = "parseBiomeOutput"   -> parseBiomeOutput(input)

\* the calls that have returned so far, in order
ReturnedCalls == log \o Finished

\* C17: the result of a call is a function of its text alone: two calls of
\* the same parser on the same text return equal results whatever calls
\* were made before them or between them, and every call returns, at the
\* moment it returns, what the parser returns on that text in a fresh
\* process, so no call observes anything an earlier one left in the
\* variables.
C17_CallsAreIndependent ==
    /\ \A i, j \in DOMAIN ReturnedCalls :
          (ReturnedCalls[i].fn = ReturnedCalls[j].fn
              /\ ReturnedCalls[i].input = ReturnedCalls[j].input)
          => ReturnedCalls[i].result = ReturnedCalls[j].result
    /\ Finished # <<>> => Finished[1].result = Apply(Finished[1].fn, Finished[1].input)

\* parseTscOutput has returned for the second time on one text that holds
\* errors, with the same result, after a call on another text that holds
\* errors was made between the two and left its errors and its result
\* behind
C17_Witness ==
    /\ Len(log) = 2
    /\ Finished # <<>>
    /\ \A i \in 1..2 : log[i].fn = "parseTscOutput"
    /\ Finished[1].fn = "parseTscOutput"
    /\ log[1].input = Finished[1].input
    /\ log[2].input # log[1].input
    /\ log[1].result.errorCount > 0
    /\ log[2].result.errorCount > 0
    /\ log[2].result # log[1].result
    /\ Finished[1].result = log[1].result

---------------------------------------------------------------------------
(* The order of the rules of the failure parser *)

\* the rules in the order of their priority
RuleOrder == <<"terminal", "start", "error", "frame", "context", "text">>

\* the pattern of a rule taken alone matches the line
Matches(rule, line) ==
    CASE rule = "terminal" -> IsTerminalMarker(line)
      [] rule = "start"    -> IncludesGlyph(line) \/ StartsWithFAIL(line)
      [] rule = "error"    -> StartsWithError(Trim(line))
      [] rule = "frame"    -> IsStackFrame(line)
      [] rule = "context"  -> IsSourceContext(line)
      [] rule = "text"     -> TRUE

\* the first rule, in the order of priority, whose pattern matches
FirstRule(line) ==
    RuleOrder[Min({k \in 1..Len(RuleOrder) : Matches(RuleOrder[k], line)})]

\* what each rule, acting alone on the line output[idx], makes of the open
\* block and of failures
ActsAlone(rule) ==
    LET line == output[idx]
        open == currentFailure # <<>>
    IN  CASE rule = "terminal" ->
               /\ currentFailure' = <<>>
               /\ failures' = IF open
                              THEN Append(failures,
                                     [currentFailure[1] EXCEPT
                                        !.message = failMatch(line)[1] \o <<":", " ">> \o @])
                              ELSE failures
          [] rule = "start" ->
               /\ currentFailure' = <<[file |-> <<"unknown">>, message |-> Trim(line),
                                       line |-> <<>>, stack |-> <<>>]>>
               /\ failures' = IF open THEN Append(failures, currentFailure[1]) ELSE failures
          [] rule = "error" ->
               /\ failures' = failures
               /\ currentFailure' =
                     IF open
                     THEN <<[currentFailure[1] EXCEPT
                                !.message = @ \o <<"\n">> \o Trim(line)]>>
                     ELSE <<[file |-> <<"unknown">>, message |-> Trim(line),
                             line |-> <<>>, stack |-> <<>>]>>
          [] rule = "frame" ->
               /\ failures' = failures
               /\ IF open
                  THEN /\ currentFailure' # <<>>
                       /\ currentFailure'[1].stack =
                             currentFailure[1].stack \o line \o <<"\n">>
                       /\ currentFailure'[1].message = currentFailure[1].message
                  ELSE currentFailure' = <<>>
          [] rule = "context" -> ParseUntouched
          [] rule = "text" ->
               /\ failures' = failures
               /\ currentFailure' =
                     IF open /\ Trim(line) # <<>>
                     THEN <<[currentFailure[1] EXCEPT
                                !.message = @ \o <<"\n">> \o Trim(line)]>>
                     ELSE currentFailure

C21_Step ==
    (AboutToHandle /\ output[idx] # <<>>) => ActsAlone(FirstRule(output[idx]))

\* C21: every non-empty line is handled by one rule alone, the first whose
\* pattern matches in the order terminal marker, start marker, 'error:'
\* line, stack-frame line, source-context line, other text: a line that is
\* both a terminal and a start marker only closes the open block, and an
\* 'error:' line met while a block is open is appended to its message and
\* opens nothing.
C21_OneRulePerLine == [][C21_Step]_vars

\* an 'error:' line opened a block, a second one was appended to it, and a
\* line that is both a terminal and a start marker closed it and left
\* nothing open
C21_Witness ==
    /\ pc = "lines"
    /\ idx = 4
    /\ Rule(output[1]) = "error"
    /\ Rule(output[2]) = "error"
    /\ Matches("terminal", output[3]) /\ Matches("start", output[3])
    /\ currentFailure = <<>>
    /\ Len(failures) = 1
    /\ failures[1].message =
          failMatch(output[3])[1] \o <<":", " ">> \o Trim(output[1])
             \o <<"\n">> \o Trim(output[2])

---------------------------------------------------------------------------
(* The life of an accumulator *)

\* the lines at which the accumulators now in failures were opened
Committed == {origins[k].at : k \in 1..Len(origins)}

\* the lines at which the accumulators dropped so far were opened
Dropped == {discarded[k].at : k \in 1..Len(discarded)}

\* the step ends the open accumulator: another one takes its place, none
\* does, or the loop is over
EndsOpen ==
    /\ pc = "lines"
    /\ opened # <<>>
    /\ opened' # opened \/ pc' = "flushed"

\* the open accumulator is appended to failures, once, and not dropped
CommitsOpen ==
    /\ Len(failures') = Len(failures) + 1
    /\ SubSeq(failures', 1, Len(failures)) = failures
    /\ Len(origins') = Len(origins) + 1
    /\ SubSeq(origins', 1, Len(origins)) = origins
    /\ origins'[Len(origins')].at = opened[1].at
    /\ discarded' = discarded

\* the open accumulator is dropped and failures stays as it is
DropsOpen ==
    /\ failures' = failures
    /\ origins' = origins
    /\ discarded' = Append(discarded, opened[1])

C22_Step ==
    /\ EndsOpen => (CommitsOpen \/ DropsOpen)
    /\ (pc = "lines" /\ ~EndsOpen) =>
          (failures' = failures /\ origins' = origins /\ discarded' = discarded)
    /\ pc \in {"lines", "flushed"} => FailuresKept

C22_Accounts ==
    /\ Len(currentFailure) <= 1
    /\ (currentFailure # <<>>) = (opened # <<>>)
    /\ Len(origins) = Len(failures)
    /\ Cardinality(Committed) = Len(origins)
    /\ Cardinality(Dropped) = Len(discarded)
    /\ Committed \cap Dropped = {}
    /\ (pc = "lines" /\ opened # <<>>) => opened[1].at \notin Committed \cup Dropped
    /\ (LoopOver /\ opened # <<>>) => opened[1].at \in Committed \cup Dropped
    /\ Returned => result[1].failures = failures

\* C22: at most one accumulator is open at any step; the step that ends the
\* open accumulator either appends it to failures, once, or drops it, never
\* both and never neither; no accumulator is in failures twice or both in
\* failures and dropped; when the loop is over none is left unaccounted for;
\* and no entry of failures changes after it was appended.
C22_OneOpenEndsOnce == [][C22_Step]_vars /\ []C22_Accounts

\* the call returned after one accumulator was committed and a later one
\* was dropped
C22_Witness ==
    /\ Returned
    /\ Len(origins) = 1
    /\ Len(discarded) = 1
    /\ origins[1].at < discarded[1].at
    /\ Len(result[1].failures) = 1

---------------------------------------------------------------------------
(* The tools around the parsers: runBunTests and the bun_runTests handler  *)
(* (packages/bun-runner/mcp/index.ts, kept here as src/unnamed/part_003),  *)
(* and runBiomeFix (src/packages/biome-runner/README.md lines 178-242).    *)
(* The process runner is the environment: what it returns is chosen when   *)
(* the call starts (runBunTests) or at each run (runBiomeFix).             *)

\* longest stderr of a test run, in lines
MaxRunLines == 2

\* what the process runner returns for `bun test`
RunStdout == {<<L_empty>>, <<L_pass>>, <<L_err>>}

RunStderrCorpus == {L_empty, L_err, L_term, L_glyph, L_text, L_pass, L_fail0, L_fail2}

RunStderr == UNION {[1..n -> RunStderrCorpus] : n \in 1..MaxRunLines}

RunExitCodes == {0, 1}

\* part_003 line 84: the lines of `${stdout}\n${stderr}`
CombinedOutput(r) == r.stdout \o r.stderr

\* part_003 lines 69-80
TimeoutSummary ==
    [passed |-> 0, failed |-> 1, total |-> 1,
     failures |->
        <<[file |-> <<"timeout">>,
           message |-> <<"Tests timed out after 30 seconds. Possible causes: open handles, infinite loops, or watch mode accidentally enabled.">>,
           line |-> <<>>, stack |-> <<>>]>>]

\* part_003 lines 88-96
ExitZeroSummary(out) ==
    [passed |-> PassedOf(out), failed |-> 0, total |-> PassedOf(out), failures |-> <<>>]

\* mutant of Decision: the exit code is looked at before the timeout
Decision_exitFirst(r) ==
    IF r.exitCode = 0 THEN "passed"
    ELSE IF r.timedOut THEN "timeout"
    ELSE "parse"

\* part_003 lines 68, 87, 100: which of the three returns is taken
Decision(r) ==
    IF r.timedOut THEN "timeout"
    ELSE IF r.exitCode = 0 THEN "passed"
    ELSE "parse"

\* part_003 lines 61-65: spawnWithTimeout has returned
RunCall(so, se, code, to) ==
    [pc |-> "spawned", stdout |-> so, stderr |-> se, exitCode |-> code,
     timedOut |-> to, summary |-> <<>>, outcome |-> "none"]

\* part_003 lines 68-81
RunTimedOut ==
    /\ run.pc = "spawned"
    /\ Decision(run) = "timeout"
    /\ run' = [run EXCEPT !.pc = "returned", !.summary = <<TimeoutSummary>>]
    /\ UNCHANGED <<output, pc, idx, passed, failedFromSummary, currentFailure, failures,
                   result, opened, origins, discarded, tsc, biome, log, fix>>

\* part_003 lines 84-97
RunExitZero ==
    /\ run.pc = "spawned"
    /\ Decision(run) = "passed"
    /\ run' = [run EXCEPT !.pc = "returned",
                          !.summary = <<ExitZeroSummary(CombinedOutput(run))>>]
    /\ UNCHANGED <<output, pc, idx, passed, failedFromSummary, currentFailure, failures,
                   result, opened, origins, discarded, tsc, biome, log, fix>>

\* part_003 lines 84, 100: parseBunTestOutput(output) is entered
RunParse ==
    /\ run.pc = "spawned"
    /\ Decision(run) = "parse"
    /\ run' = [run EXCEPT !.pc = "parsing"]
    /\ output' = CombinedOutput(run)
    /\ pc' = "start"
    /\ UNCHANGED <<idx, passed, failedFromSummary, currentFailure, failures,
                   result, opened, origins, discarded, tsc, biome, log, fix>>

\* part_003 line 100: parseBunTestOutput has returned
RunParsed ==
    /\ run.pc = "parsing"
    /\ pc = "done"
    /\ run' = [run EXCEPT !.pc = "returned", !.summary = result]
    /\ UNCHANGED <<output, pc, idx, passed, failedFromSummary, currentFailure, failures,
                   result, opened, origins, discarded, tsc, biome, log, fix>>

\* part_003 lines 280-291: the handler throws the formatted summary
HandlerThrows ==
    /\ run.pc = "returned"
    /\ run.summary[1].failed > 0
    /\ run' = [run EXCEPT !.pc = "handled", !.outcome = "error"]
    /\ UNCHANGED <<output, pc, idx, passed, failedFromSummary, currentFailure, failures,
                   result, opened, origins, discarded, tsc, biome, log, fix>>

\* part_003 lines 280-293: the handler returns the formatted summary
HandlerReturns ==
    /\ run.pc = "returned"
    /\ ~(run.summary[1].failed > 0)
    /\ run' = [run EXCEPT !.pc = "handled", !.outcome = "text"]
    /\ UNCHANGED <<output, pc, idx, passed, failedFromSummary, currentFailure, failures,
                   result, opened, origins, discarded, tsc, biome, log, fix>>

\* what a run of Biome may print
FixTexts ==
    {"", "null",
     Stringify(Report(<<>>, <<S_changed>>)),
     Stringify(Report(<<JArr(<<D_error>>)>>, <<S_full>>)),
     Stringify(Report(<<JNum(5)>>, <<>>)),
     Stringify(Report(<<JArr(<<JNull>>)>>, <<>>)),
     Stringify(Report(<<JArr(<<>>)>>, <<>>))}

\* the tool runs of runBiomeFix, by their arguments, in the order of the code
FixCommands == <<"format --write", "check --write", "check">>

\* README.md lines 194-196 and 219-221: the value the try block assigns,
\* <<>> when JSON.parse or the read of report.summary throws
ChangedOf(stdout) ==
    LET p == JSONparse(stdout)
    IN  IF p = <<>> \/ IsNullish(p[1]) THEN <<>>
        ELSE <<Or(OptGet(Get(p[1], "summary"), "changed"), JNum(0))>>

\* mutant of Fixed: a report that cannot be read counts as one fix
Fixed_countsFailure(stdout) ==
    IF ChangedOf(stdout) = <<>> THEN JNum(1) ELSE ChangedOf(stdout)[1]

\* README.md lines 192-204 and 217-229: formatFixed or lintFixed after the
\* try statement; the catch block only logs
Fixed(stdout) ==
    IF ChangedOf(stdout) = <<>> THEN JNum(0) ELSE ChangedOf(stdout)[1]

\* README.md line 178: runBiomeFix is entered
FixCall ==
    [pc |-> "format", runs |-> <<>>, formatStdout |-> "", checkStdout |-> "",
     formatFixed |-> JNum(0), lintFixed |-> JNum(0), recheckStdout |-> "",
     checked |-> <<>>, remaining |-> <<>>,
     callbacks |-> 0]

\* most callbacks of the event loop that run while one call is suspended
MaxCallbacks == 1

\* what another callback hands to parseBiomeOutput
CallbackTexts == {"5", Stringify(Report(<<JArr(<<D_warning>>)>>, <<>>))}

\* runBiomeFix is suspended at an `await`: of spawnAndCollect (README.md
\* lines 182, 207), of the spawnAndCollect of runBiomeCheck (line 154), or of
\* runBiomeCheck itself (line 239) after its parseBiomeOutput returned
FixAwaits == fix.pc \in {"formatAwait", "checkAwait", "recheckAwait", "resumeAwait"}

\* no call of parseBiomeOutput is under way: a callback runs to its end
\* before the event loop runs the next one
BiomeAtRest == biome.pc \in {"idle", "done"}

\* README.md lines 182-190: spawnAndCollect is called for `format --write`
\* and the function is suspended at the await
FixFormat ==
    /\ fix.pc = "format"
    /\ fix' = [fix EXCEPT !.pc = "formatAwait", !.runs = Append(@, FixCommands[1])]
    /\ UNCHANGED <<output, pc, idx, passed, failedFromSummary, currentFailure, failures,
                   result, opened, origins, discarded, tsc, biome, log, run>>

\* README.md line 182: the promise settles and formatStdout is bound
FixFormatSettled ==
    /\ fix.pc = "formatAwait"
    /\ BiomeAtRest
    /\ \E text \in FixTexts :
          fix' = [fix EXCEPT !.pc = "formatted", !.formatStdout = text]
    /\ UNCHANGED <<output, pc, idx, passed, failedFromSummary, currentFailure, failures,
                   result, opened, origins, discarded, tsc, biome, log, run>>

\* README.md lines 192-196: the report of the format run is read
FixFormatCounted ==
    /\ fix.pc = "formatted"
    /\ ChangedOf(fix.formatStdout) # <<>>
    /\ fix' = [fix EXCEPT !.pc = "check", !.formatFixed = Fixed(fix.formatStdout)]
    /\ UNCHANGED <<output, pc, idx, passed, failedFromSummary, currentFailure, failures,
                   result, opened, origins, discarded, tsc, biome, log, run>>

\* README.md lines 192-204: the try block throws and the catch block logs
FixFormatCaught ==
    /\ fix.pc = "formatted"
    /\ ChangedOf(fix.formatStdout) = <<>>
    /\ fix' = [fix EXCEPT !.pc = "check", !.formatFixed = Fixed(fix.formatStdout)]
    /\ UNCHANGED <<output, pc, idx, passed, failedFromSummary, currentFailure, failures,
                   result, opened, origins, discarded, tsc, biome, log, run>>

\* README.md lines 207-215: spawnAndCollect is called for `check --write`
\* and the function is suspended at the await
FixCheck ==
    /\ fix.pc = "check"
    /\ fix' = [fix EXCEPT !.pc = "checkAwait", !.runs = Append(@, FixCommands[2])]
    /\ UNCHANGED <<output, pc, idx, passed, failedFromSummary, currentFailure, failures,
                   result, opened, origins, discarded, tsc, biome, log, run>>

\* README.md line 207: the promise settles and checkStdout is bound
FixCheckSettled ==
    /\ fix.pc = "checkAwait"
    /\ BiomeAtRest
    /\ \E text \in FixTexts :
          fix' = [fix EXCEPT !.pc = "checked", !.checkStdout = text]
    /\ UNCHANGED <<output, pc, idx, passed, failedFromSummary, currentFailure, failures,
                   result, opened, origins, discarded, tsc, biome, log, run>>

\* README.md lines 217-221: the report of the check run is read
FixCheckCounted ==
    /\ fix.pc = "checked"
    /\ ChangedOf(fix.checkStdout) # <<>>
    /\ fix' = [fix EXCEPT !.pc = "recheck", !.lintFixed = Fixed(fix.checkStdout)]
    /\ UNCHANGED <<output, pc, idx, passed, failedFromSummary, currentFailure, failures,
                   result, opened, origins, discarded, tsc, biome, log, run>>

\* README.md lines 217-229: the try block throws and the catch block logs
FixCheckCaught ==
    /\ fix.pc = "checked"
    /\ ChangedOf(fix.checkStdout) = <<>>
    /\ fix' = [fix EXCEPT !.pc = "recheck", !.lintFixed = Fixed(fix.checkStdout)]
    /\ UNCHANGED <<output, pc, idx, passed, failedFromSummary, currentFailure, failures,
                   result, opened, origins, discarded, tsc, biome, log, run>>

\* README.md lines 239, 153-160: runBiomeCheck calls spawnAndCollect for
\* `check` and is suspended at the await
FixRecheck ==
    /\ fix.pc = "recheck"
    /\ fix' = [fix EXCEPT !.pc = "recheckAwait", !.runs = Append(@, FixCommands[3])]
    /\ UNCHANGED <<output, pc, idx, passed, failedFromSummary, currentFailure, failures,
                   result, opened, origins, discarded, tsc, biome, log, run>>

\* README.md lines 154, 163: the promise settles, stdout is bound and
\* parseBiomeOutput(stdout) is entered
FixRecheckSettled ==
    /\ fix.pc = "recheckAwait"
    /\ BiomeAtRest
    /\ \E text \in FixTexts :
          /\ fix' = [fix EXCEPT !.pc = "parsing", !.recheckStdout = text]
          /\ biome' = BiomeCall(text)
    /\ UNCHANGED <<output, pc, idx, passed, failedFromSummary, currentFailure, failures,
                   result, opened, origins, discarded, tsc, log, run>>

\* README.md line 163: parseBiomeOutput has returned and runBiomeCheck
\* returns its value, which settles the promise runBiomeFix awaits at line
\* 239; runBiomeFix itself resumes in a later turn of the event loop
FixChecked ==
    /\ fix.pc = "parsing"
    /\ biome.pc = "done"
    /\ fix' = [fix EXCEPT !.pc = "resumeAwait", !.checked = biome.result]
    /\ UNCHANGED <<output, pc, idx, passed, failedFromSummary, currentFailure, failures,
                   result, opened, origins, discarded, tsc, biome, log, run>>

\* README.md lines 239-241: runBiomeFix resumes with the value of the
\* promise of its own runBiomeCheck call and returns
FixReturn ==
    /\ fix.pc = "resumeAwait"
    /\ BiomeAtRest
    /\ fix' = [fix EXCEPT !.pc = "done", !.remaining = fix.checked]
    /\ UNCHANGED <<output, pc, idx, passed, failedFromSummary, currentFailure, failures,
                   result, opened, origins, discarded, tsc, biome, log, run>>

\* while runBiomeFix is suspended the event loop runs another callback,
\* which calls parseBiomeOutput (README.md line 163, reached from another
\* request)
OtherCallback ==
    /\ FixAwaits
    /\ BiomeAtRest
    /\ fix.callbacks < MaxCallbacks
    /\ \E text \in CallbackTexts : biome' = BiomeCall(text)
    /\ fix' = [fix EXCEPT !.callbacks = @ + 1]
    /\ UNCHANGED <<output, pc, idx, passed, failedFromSummary, currentFailure, failures,
                   result, opened, origins, discarded, tsc, log, run>>

\* a call of the bun_runTests handler, or a call of runBiomeFix
InitTools ==
    /\ \/ /\ run \in {RunCall(so, se, code, to) :
                        so \in RunStdout, se \in RunStderr,
                        code \in RunExitCodes, to \in BOOLEAN}
          /\ fix = FixIdle
       \/ /\ run = RunIdle
          /\ fix = FixCall
    /\ pc = "idle"
    /\ output = <<L_empty>>
    /\ tsc = TscIdle
    /\ biome = BiomeIdle
    /\ log = <<>>
    /\ idx = 0
    /\ passed = 0
    /\ failedFromSummary = <<>>
    /\ currentFailure = <<>>
    /\ failures = <<>>
    /\ result = <<>>
    /\ opened = <<>>
    /\ origins = <<>>
    /\ discarded = <<>>

NextTools ==
    \/ RunTimedOut
    \/ RunExitZero
    \/ RunParse
    \/ RunParsed
    \/ HandlerThrows
    \/ HandlerReturns
    \/ ShortCircuit
    \/ BeginDetails
    \/ EmptyLine
    \/ TerminalMarker
    \/ StartMarker
    \/ ErrorLine
    \/ ContentLine
    \/ EndOfInput
    \/ Return
    \/ FixFormat
    \/ FixFormatSettled
    \/ FixFormatCounted
    \/ FixFormatCaught
    \/ FixCheck
    \/ FixCheckSettled
    \/ FixCheckCounted
    \/ FixCheckCaught
    \/ FixRecheck
    \/ FixRecheckSettled
    \/ FixChecked
    \/ FixReturn
    \/ OtherCallback
    \/ JsonParse
    \/ SyntaxError
    \/ SkipDiagnostics
    \/ EnterLoop
    \/ NextDiagnostic
    \/ TypeError
    \/ Summarise
    \/ Catch

SpecTools == InitTools /\ [][NextTools]_vars

\* runBunTests has returned
RunReturned == run.pc \in {"returned", "handled"}

\* C23: runBunTests decides in a fixed order.  After a timeout the result is
\* exactly {passed: 0, failed: 1, total: 1, failures: [one entry, file
\* 'timeout']} and the parser was never entered; otherwise with exit code 0
\* failed is 0, failures is empty and total = passed whatever the output
\* holds; only otherwise is the result that of parseBunTestOutput on stdout
\* followed by stderr.  The handler then signals an error exactly when
\* failed > 0.
C23_RunPrecedence ==
    /\ RunReturned =>
          LET s == run.summary[1]
          IN  IF run.timedOut
              THEN /\ s.passed = 0 /\ s.failed = 1 /\ s.total = 1
                   /\ Len(s.failures) = 1
                   /\ s.failures[1].file = <<"timeout">>
                   /\ pc = "idle" /\ idx = 0 /\ result = <<>>
              ELSE IF run.exitCode = 0
              THEN /\ s.failed = 0
                   /\ s.failures = <<>>
                   /\ s.total = s.passed
                   /\ pc = "idle" /\ idx = 0 /\ result = <<>>
              ELSE /\ s = parseBunTestOutput(run.stdout \o run.stderr)
                   /\ result = <<s>>
    /\ (run.pc # "idle" /\ (run.timedOut \/ run.exitCode = 0)) => pc = "idle"
    /\ run.pc = "handled" => (run.outcome = "error") = (run.summary[1].failed > 0)
    /\ run.pc # "handled" => run.outcome = "none"

\* a run that timed out with exit code 0 and output that the parser would
\* turn into a failure has been handled
C23_Witness ==
    /\ run.pc = "handled"
    /\ run.timedOut
    /\ run.exitCode = 0
    /\ parseBunTestOutput(run.stdout \o run.stderr).failures # <<>>
    /\ run.outcome = "error"

\* runBiomeFix is under way
FixRunning ==
    fix.pc \in {"format", "formatAwait", "formatted", "check", "checkAwait", "checked",
                "recheck", "recheckAwait", "parsing", "resumeAwait"}

\* C24: runBiomeFix makes its three tool runs in the order 'format --write',
\* 'check --write', 'check': the runs made so far are always the first of
\* these three in that order, whatever other callbacks run while it is
\* suspended; parseBiomeOutput is entered for `remaining` only after both
\* write runs and their counts, and `remaining` is what parseBiomeOutput
\* makes of the output of the third run, also when another callback called
\* parseBiomeOutput before runBiomeFix resumed; a call under way always has
\* a next step; and a report of a write run that cannot be read sets the
\* count of that run to 0 and the call still returns after all three runs.
C24_FixOrder ==
    /\ Len(fix.runs) <= 3
    /\ fix.runs = SubSeq(<<"format --write", "check --write", "check">>, 1, Len(fix.runs))
    /\ fix.pc \in {"parsing", "resumeAwait", "done"} =>
          fix.runs = <<"format --write", "check --write", "check">>
    /\ fix.pc = "parsing" => biome.stdout = fix.recheckStdout
    /\ fix.pc \in {"resumeAwait", "done"} =>
          fix.checked = <<parseBiomeOutput(fix.recheckStdout)>>
    /\ (fix.pc # "idle" /\ fix.remaining # <<>>) => fix.pc = "done"
    /\ (fix.pc # "idle" /\ ~BiomeAtRest) => (FixAwaits \/ fix.pc = "parsing")
    /\ (FixRunning /\ BiomeAtRest) =>
          ENABLED (FixFormat \/ FixFormatSettled \/ FixFormatCounted \/ FixFormatCaught
                     \/ FixCheck \/ FixCheckSettled \/ FixCheckCounted \/ FixCheckCaught
                     \/ FixRecheck \/ FixRecheckSettled \/ FixChecked
                     \/ FixReturn)
    /\ (Len(fix.runs) >= 2 /\ JSONparse(fix.formatStdout) = <<>>) =>
          fix.formatFixed = JNum(0)
    /\ (Len(fix.runs) >= 3 /\ JSONparse(fix.checkStdout) = <<>>) =>
          fix.lintFixed = JNum(0)
    /\ fix.pc = "done" =>
          /\ fix.runs = <<"format --write", "check --write", "check">>
          /\ fix.remaining = <<parseBiomeOutput(fix.recheckStdout)>>

\* runBiomeFix returned after no write run printed a readable report, the
\* third run reported a diagnostic, and another callback called
\* parseBiomeOutput, with another result, between the return of
\* runBiomeCheck and the resumption of runBiomeFix
C24_Witness ==
    /\ fix.pc = "done"
    /\ fix.callbacks > 0
    /\ biome.pc = "done"
    /\ biome.result # fix.remaining
    /\ JSONparse(fix.formatStdout) = <<>>
    /\ JSONparse(fix.checkStdout) = <<>>
    /\ fix.formatFixed = JNum(0) /\ fix.lintFixed = JNum(0)
    /\ Len(fix.runs) = 3
    /\ Len(fix.remaining[1].diagnostics) = 1
    /\ fix.remaining[1].error_count = JNum(3)

---------------------------------------------------------------------------
(* The earlier parseBunTestOutput (src/unnamed/part_002 lines 24-108).  Its *)
(* loop body, lines 30-90, is statement for statement the loop body of     *)
(* parseFailureDetails (part_001 lines 178-240), so RunLines is both.      *)

\* part_002 line 91: `if (currentFailure) failures.push(currentFailure)`
legacyEndOfInput(st) ==
    IF st.currentFailure # <<>>
    THEN Append(st.failures, st.currentFailure[1])
    ELSE st.failures

\* part_002 lines 25-91
legacyFailures(out) ==
    legacyEndOfInput(RunLines([currentFailure |-> <<>>, failures |-> <<>>], out, 1))

\* part_002 lines 24-108
legacyParseBunTestOutput(out) ==
    LET fs == legacyFailures(out)
        failMatchNum == CountMatch(out, "fail")
        failed == IF failMatchNum # <<>> THEN ParseInt(failMatchNum[1]) ELSE Len(fs)
    IN  [passed |-> PassedOf(out), failed |-> failed,
         total |-> PassedOf(out) + failed, failures |-> fs]

\* C25: on every input whose first fail count is absent or not zero and on
\* which no block opened by an orphan 'error:' line is open at the end of
\* input, the two implementations of parseBunTestOutput return equal
\* summaries; they differ only on inputs with a '0 fail' count or with a
\* tentative block open at the end.
C25_ImplementationsAgree ==
    (Returned /\ ~FirstFailIsZero(output) /\ ~TentativeOpen) =>
        result[1] = legacyParseBunTestOutput(output)

===========================================================================
